---- MODULE Spec2Model ----
(***************************************************************************)
(* par: session & workspace state engine.                                  *)
(*                                                                         *)
(* The program is modelled by these specifications:                        *)
(*   Spec      - the lifecycle manager (par/core.py, par/workspace.py,     *)
(*               par/operations.py) over the global state file, the data   *)
(*               directory, git branches and tmux sessions;                *)
(*   SpecStore - the StateManager of par/state_manager.py (file, temporary *)
(*               file, backup, cache and clock);                           *)
(*   SpecCC    - the control center of par/operations.py;                  *)
(*   SpecNav   - opening, switching and removing sessions without faults;  *)
(*   SpecMig   - the first commands over legacy state files;               *)
(*   SpecConc  - two par start processes running at the same time;         *)
(*   SpecEdit  - removals over a state file holding any stored path;       *)
(*   SpecRace  - two saves of the StateManager, step by step.              *)
(*                                                                         *)
(* A command invocation is one action.  A handler is written as a chain of *)
(* steps over a context record c: every step is the identity once c.run is *)
(* FALSE (the handler raised typer.Exit or the process was interrupted),   *)
(* which is how the early exits of the code are translated.  c.ev is the   *)
(* sequence of calls the handler made, in the order the code makes them.   *)
(*                                                                         *)
(* The external tools are part of the environment of an invocation: git   *)
(* and tmux commands may fail, and the tmux executable may be missing from *)
(* the PATH of the shell the command is typed in.                          *)
(***************************************************************************)
EXTENDS Integers, Sequences, FiniteSets, TLC

VARIABLES
    gfile,        \* content of <data>/global_state.json
    legacyState,  \* content of the legacy <data>/state.json (file order)
    legacyWs,     \* content of the legacy <data>/workspaces.json (file order)
    backups,      \* files under <data>/backup and *.backup: name -> content
    dirs,         \* directories that exist under the data directory
    tmux,         \* names of the live tmux sessions
    branches,     \* local git branches: <<repository, branch name>>
    last,         \* the last command: its inputs, outcome and call sequence
    ncmd,         \* how many commands have run
    client,       \* the tmux session the invoking terminal is attached to
    procs,        \* concurrent par start invocations: where each one is
    sfile,        \* StateManager: content of state_file
    stmp,         \* StateManager: content of state_file.with_suffix(".tmp")
    sbackup,      \* StateManager: content of state_file.with_suffix(".json.backup")
    cache,        \* StateManager._cache (some = FALSE is None)
    cacheTime,    \* StateManager._cache_time
    now,          \* time.time(), in seconds
    slast,        \* the last StateManager call: arguments, outcome, result
    scmd,         \* how many StateManager calls have run
    ccAlive,      \* control center: the tmux session "control-center" exists
    ccWins,       \* control center: its windows [idx, id, name, path]
    ccNextId,     \* control center: identity of the next window tmux makes
    ccLast,       \* control center: the last command, its inputs and outcome
    ccn,          \* control center: how many steps have run
    rInodes,      \* race: the content of every inode, by inode number
    rStateFile,   \* race: the inode state_file names (NoInode: no such file)
    rTempFile,    \* race: the inode state_file.with_suffix(".tmp") names
    rPc,          \* race: where each writer is in save()
    rFd,          \* race: the inode each writer's open file writes to
    rObs,         \* race: what the reader's last read returned
    rReads,       \* race: how many reads were made
    rLastReplace  \* race: the writer whose replace came last (0: none)

lifeVars ==
    <<gfile, legacyState, legacyWs, backups, dirs, tmux, branches, last, ncmd,
      client, procs>>

storeVars == <<sfile, stmp, sbackup, cache, cacheTime, now, slast, scmd>>

ccVars == <<ccAlive, ccWins, ccNextId, ccLast, ccn>>

raceVars ==
    <<rInodes, rStateFile, rTempFile, rPc, rFd, rObs, rReads, rLastReplace>>

vars == <<lifeVars, storeVars, ccVars, raceVars>>

(***************************************************************************)
(* The small universe the inputs are drawn from.                           *)
(***************************************************************************)
MaxCmds == 3                   \* commands per behaviour
Repos == {"r1", "r2"}          \* git repositories (by directory name)
Labels == {"a", "dev"}         \* labels a user types ("dev" is also a branch)
WsRoots == {"w1"}              \* workspace root directories
WsMembers == <<"m1", "m2">>    \* the repositories detected inside a root
NoLabel == ""                  \* a missing last_session / previous_session
NoProcs == <<>>                 \* no concurrent invocation is under way
Outside == <<>>                \* the terminal is in no tmux session
OwnSession == <<"main">>       \* a tmux session of the user's, not par's

EmptyMap == [x \in {} |-> 0]
Put(m, k, v) == [x \in DOMAIN m \cup {k} |-> IF x = k THEN v ELSE m[x]]
Del(m, k) == [x \in DOMAIN m \ {k} |-> m[x]]
Range(s) == {s[i] : i \in DOMAIN s}

(***************************************************************************)
(* Paths are sequences of components; Path.parent drops the last one and   *)
(* "p in q.parents" is the proper-prefix test.                             *)
(***************************************************************************)
DataDir == <<"data">>
Parent(p) == SubSeq(p, 1, Len(p) - 1)
IsPrefix(p, q) == Len(p) <= Len(q) /\ SubSeq(q, 1, Len(p)) = p
InParents(p, q) == Len(p) < Len(q) /\ IsPrefix(p, q)
Ancestors(p) == {SubSeq(p, 1, n) : n \in 1..Len(p)}

\* utils._get_repo_id: a hash prefix of the resolved path, injective here.
RepoId(repo) == "id-" \o repo

\* utils.get_worktree_path, without its mkdir (see MkdirP).
GetWorktreePath(repo, label) == DataDir \o <<"worktrees", RepoId(repo), label>>

\* utils.get_tmux_session_name: par-<name>-<id>-<label>.
GetTmuxSessionName(repo, label) == <<"par", repo, RepoId(repo), label>>

\* utils.get_workspace_worktree_path: <data>/workspaces/<id>/<label>/<repo>.
GetWorkspaceWorktreePath(root, label, member) ==
    DataDir \o <<"workspaces", RepoId(root), label, member>>

\* utils.get_workspace_session_name: par-ws-<name>-<id>-<label>.
GetWorkspaceSessionName(root, label) == <<"par-ws", root, RepoId(root), label>>

(***************************************************************************)
(* The global state document and the states of its file.                   *)
(***************************************************************************)
EmptyState ==
    [sessions |-> EmptyMap, workspaces |-> EmptyMap,
     last_session |-> NoLabel, previous_session |-> NoLabel]

\* File states: absent; a complete JSON document; a zero-length file (what
\* open(.., "w") leaves before the first byte is written); a non-empty strict
\* prefix of the document's JSON text, which json.loads rejects.
AbsentFile == [t |-> "absent", d |-> EmptyState]
EmptyFile == [t |-> "empty", d |-> EmptyState]
DocFile(state) == [t |-> "doc", d |-> state]
PartialFile(state) == [t |-> "partial", d |-> state]

\* The labels the on-disk document tracks.
TrackedSessions(f) == IF f.t = "doc" THEN DOMAIN f.d.sessions ELSE {}
TrackedWorkspaces(f) == IF f.t = "doc" THEN DOMAIN f.d.workspaces ELSE {}
Tracked(f) == TrackedSessions(f) \cup TrackedWorkspaces(f)


RepoPath(repo) == <<"home", repo>>
WsRootPath(root) == <<"home", root>>
MemberPath(root, member) == <<"home", root, member>>

\* A record of state["sessions"] (core.py:260-269, 552-562, workspace.py:149-159).
\* created_at and repository_name are left out: nothing reads them back.
SessionData(label, type, repoPath, wtPath, tmuxName, branch, target, members) ==
    [label |-> label, session_type |-> type, repository_path |-> repoPath,
     worktree_path |-> wtPath, tmux_session_name |-> tmuxName,
     branch_name |-> branch, checkout_target |-> target,
     workspace_repos |-> members]

\* One element of workspace_repos (workspace.py:120-127).
RepoData(name, repoPath, wtPath, branch) ==
    [repo_name |-> name, repo_path |-> repoPath, worktree_path |-> wtPath,
     branch_name |-> branch]

(***************************************************************************)
(* The context a handler threads through its steps.                        *)
(***************************************************************************)
Ctx0 ==
    [gfile |-> gfile, backups |-> backups, dirs |-> dirs, tmux |-> tmux,
     branches |-> branches, client |-> client, run |-> TRUE, exit |-> "ok",
     saves |-> 0, ev |-> <<>>]

Ev(name, a, b) == <<name, a, b>>
Log(c, e) == [c EXCEPT !.ev = Append(@, e)]

\* raise typer.Exit(1)
Exit1(c, why) == [c EXCEPT !.run = FALSE, !.exit = why]

\* What an invocation cannot control: unexpected failures of the external
\* tools and the point (if any) at which the process is interrupted while it
\* writes the state file.
CrashModes == {"trunc", "partial"}
\* <<n, mode>>: the n-th write of the state file by the handler is cut
\* short (no handler writes it more than twice); n = 0 is no interruption.
Crashes == {<<0, "trunc">>} \cup ({1, 2} \X CrashModes)
Env(gitFail, tmuxFail, fetchFail, rmFail, delFail, treeFail, crash) ==
    [gitFail |-> gitFail, tmuxFail |-> tmuxFail, fetchFail |-> fetchFail,
     rmFail |-> rmFail, delFail |-> delFail, treeFail |-> treeFail,
     noTmux |-> FALSE, crashAt |-> crash[1], crashMode |-> crash[2]]
NoFault == Env(FALSE, FALSE, FALSE, FALSE, FALSE, FALSE, <<0, "trunc">>)
\* A creation stops at its first failure, so one fault per invocation covers
\* every outcome; a teardown swallows its failures, so they combine.
CreateEnvs ==
    {NoFault, [NoFault EXCEPT !.gitFail = TRUE], [NoFault EXCEPT !.tmuxFail = TRUE],
     [NoFault EXCEPT !.fetchFail = TRUE], [NoFault EXCEPT !.noTmux = TRUE]}
    \cup {Env(FALSE, FALSE, FALSE, FALSE, FALSE, FALSE, cr) : cr \in Crashes}
TeardownEnvs ==
    {Env(FALSE, FALSE, FALSE, r, d, t, <<0, "trunc">>) :
        r \in BOOLEAN, d \in BOOLEAN, t \in BOOLEAN}
    \cup {Env(FALSE, FALSE, FALSE, FALSE, FALSE, FALSE, cr) : cr \in Crashes}
    \cup {[NoFault EXCEPT !.noTmux = TRUE]}

(***************************************************************************)
(* core._save_global_state (core.py:46-50): open(state_file, "w") truncates *)
(* the file in place, json.dump then writes it piece by piece.  An          *)
(* interruption (or an OSError) leaves the file empty or holding a prefix.  *)
(***************************************************************************)
SaveGlobalState(c, state, env) ==
    IF ~c.run THEN c
    ELSE IF env.crashAt = c.saves + 1
    THEN [c EXCEPT !.gfile = IF env.crashMode = "trunc" THEN EmptyFile
                             ELSE PartialFile(state),
                   !.run = FALSE, !.exit = "interrupted",
                   !.saves = @ + 1,
                   !.ev = Append(@, Ev("save_interrupted", <<>>, ""))]
    ELSE [c EXCEPT !.gfile = DocFile(state), !.saves = @ + 1,
                   !.ev = Append(@, Ev("save", <<>>, ""))]

(***************************************************************************)
(* core._migrate_legacy_state (core.py:102-182).  The legacy files are      *)
(* sequences in file order: a session entry is [repo, label, branch,        *)
(* is_checkout], a workspace entry is [root, label].                        *)
(***************************************************************************)
\* A migration that keeps every label as it was in the legacy file.
UniqueLabelKept(global_label, label, name, counter, taken) == global_label

RECURSIVE UniqueLabel(_, _, _, _, _)
\* the while loops of core.py:124-126 and 154-158
UniqueLabel(global_label, label, name, counter, taken) ==
    IF global_label \in taken
    THEN UniqueLabel(label \o "-" \o name \o "-" \o ToString(counter),
                     label, name, counter + 1, taken)
    ELSE global_label

RECURSIVE MigrateSessions(_, _)
MigrateSessions(entries, acc) ==
    IF entries = <<>> THEN acc
    ELSE LET e == Head(entries)
             g == UniqueLabel(e.label, e.label, e.repo, 1, DOMAIN acc)
             rec == SessionData(g, IF e.is_checkout THEN "checkout" ELSE "session",
                                RepoPath(e.repo), GetWorktreePath(e.repo, e.label),
                                GetTmuxSessionName(e.repo, e.label), e.branch,
                                "", <<>>)
         IN MigrateSessions(Tail(entries), Put(acc, g, rec))

RECURSIVE MigrateWorkspaces(_, _, _)
MigrateWorkspaces(entries, sessions, acc) ==
    IF entries = <<>> THEN acc
    ELSE LET e == Head(entries)
             g == UniqueLabel(e.label, e.label, e.root, 1,
                              DOMAIN sessions \cup DOMAIN acc)
             rec == [label |-> g, workspace_root |-> WsRootPath(e.root),
                     session_name |-> GetWorkspaceSessionName(e.root, e.label)]
         IN MigrateWorkspaces(Tail(entries), sessions, Put(acc, g, rec))

MigrateLegacyState(ls, lw) ==
    LET s == MigrateSessions(ls, EmptyMap)
    IN [EmptyState EXCEPT !.sessions = s,
                          !.workspaces = MigrateWorkspaces(lw, s, EmptyMap)]

\* core.py:170-178: the legacy files are copied aside when anything migrated.
BackupLegacy(c, migrated) ==
    IF DOMAIN migrated.sessions = {} /\ DOMAIN migrated.workspaces = {} THEN c
    ELSE LET b1 == IF legacyState # <<>>
                   THEN Put(c.backups, "state.json.backup",
                            [t |-> "legacy", d |-> legacyState])
                   ELSE c.backups
             b2 == IF legacyWs # <<>>
                   THEN Put(b1, "workspaces.json.backup",
                            [t |-> "legacy", d |-> legacyWs])
                   ELSE b1
         IN [c EXCEPT !.backups = b2]

(***************************************************************************)
(* core._load_global_state (core.py:21-43).  Returns the context (the load  *)
(* writes the file when it is absent) and the state it hands to the caller. *)
(* "if migrated_state:" tests a dict that always has two keys, so the save  *)
(* of core.py:27 runs whenever the file is absent.                          *)
(***************************************************************************)
\* the state a load of file f returns
View(f) ==
    IF f.t = "absent" THEN MigrateLegacyState(legacyState, legacyWs)
    ELSE IF f.t = "doc" THEN f.d
    ELSE EmptyState

\* what the load does besides: core.py:27 and the warning of core.py:42
LoadGlobalState(c, env) ==
    IF c.gfile.t = "absent"
    THEN [c |-> SaveGlobalState(BackupLegacy(c, View(c.gfile)), View(c.gfile), env),
          state |-> View(c.gfile)]
    ELSE IF c.gfile.t = "partial"
    THEN [c |-> Log(c, Ev("warn_corrupted", <<>>, "")), state |-> View(c.gfile)]
    ELSE [c |-> c, state |-> View(c.gfile)]

(***************************************************************************)
(* Filesystem, git and tmux operations (par/operations.py).                *)
(***************************************************************************)
\* Path.mkdir(parents=True, exist_ok=True), for a directory under DataDir.
MkdirP(c, p) ==
    [c EXCEPT !.dirs = @ \cup {a \in Ancestors(p) : IsPrefix(DataDir, a)}]

\* shutil.rmtree / git worktree remove: the directory and all below it go.
WithoutTree(ds, p) == {d \in ds : ~IsPrefix(p, d)}

\* operations.create_worktree (operations.py:42-56) and
\* operations.create_workspace_worktree (operations.py:312-332):
\* git worktree add -b <label> <path>.  git refuses when the branch or the
\* path exists; any failure is reported and raised as typer.Exit(1).
CreateWorktree(c, label, path, repoPath, env) ==
    IF ~c.run THEN c
    ELSE LET c1 == Log(c, Ev("worktree_add", path, label))
         IN IF env.gitFail \/ <<repoPath, label>> \in c.branches \/ path \in c.dirs
            THEN Exit1(c1, "worktree_failed")
            ELSE [MkdirP(c1, path) EXCEPT !.branches = @ \cup {<<repoPath, label>>}]

\* A checkout that treats every failed fetch as a warning.
CheckoutWorktreeLenient(c, branch_name, path, strategy, repoPath, env) ==
    IF ~c.run THEN c
    ELSE LET asked == IF strategy.is_pr \/ strategy.fetch_remote
                      THEN Log(c, Ev("fetch", repoPath, strategy.ref))
                      ELSE c
             fetched == IF (strategy.is_pr \/ strategy.fetch_remote) /\ env.fetchFail
                        THEN Log(asked, Ev("fetch_error", repoPath, strategy.ref))
                        ELSE asked
         IN IF FALSE
            THEN Exit1(fetched, "fetch_failed")
            ELSE LET c1 == Log(fetched,
                               Ev("worktree_add", path,
                                  IF strategy.is_pr THEN "FETCH_HEAD"
                                  ELSE strategy.ref))
                     known == strategy.is_pr
                              \/ <<repoPath, strategy.ref>> \in c.branches
                 IN IF env.gitFail \/ ~known \/ path \in c.dirs
                    THEN Exit1(c1, "worktree_failed")
                    ELSE MkdirP(c1, path)

\* operations.checkout_worktree (operations.py:74-129).  strategy is
\* [ref, is_pr, fetch_remote].  A pull request is fetched first and the
\* worktree is built from FETCH_HEAD; a failed fetch raises typer.Exit(1).
\* With fetch_remote a failed fetch is only a warning.
CheckoutWorktree(c, branch_name, path, strategy, repoPath, env) ==
    IF ~c.run THEN c
    ELSE LET asked == IF strategy.is_pr \/ strategy.fetch_remote
                      THEN Log(c, Ev("fetch", repoPath, strategy.ref))
                      ELSE c
             fetched == IF (strategy.is_pr \/ strategy.fetch_remote) /\ env.fetchFail
                        THEN Log(asked, Ev("fetch_error", repoPath, strategy.ref))
                        ELSE asked
         IN IF strategy.is_pr /\ env.fetchFail
            THEN Exit1(fetched, "fetch_failed")
            ELSE LET c1 == Log(fetched,
                               Ev("worktree_add", path,
                                  IF strategy.is_pr THEN "FETCH_HEAD"
                                  ELSE strategy.ref))
                     known == strategy.is_pr
                              \/ <<repoPath, strategy.ref>> \in c.branches
                 IN IF env.gitFail \/ ~known \/ path \in c.dirs
                    THEN Exit1(c1, "worktree_failed")
                    ELSE MkdirP(c1, path)

\* operations.remove_worktree (operations.py:59-71) and
\* operations.remove_workspace_worktree: every failure is swallowed.
RemoveWorktree(c, path, repoPath, env) ==
    IF ~c.run THEN c
    ELSE IF env.rmFail \/ path \notin c.dirs
    THEN Log(c, Ev("worktree_remove", path, "failed"))
    ELSE [Log(c, Ev("worktree_remove", path, "removed"))
             EXCEPT !.dirs = WithoutTree(@, path)]

\* how an event names the branch branch_name of the repository at repoPath
BranchRef(repoPath, branch_name) == repoPath \o <<branch_name>>

\* operations.delete_branch (operations.py:132-144) and
\* operations.delete_workspace_branch: every failure is swallowed.
DeleteBranch(c, branch_name, repoPath, env) ==
    IF ~c.run THEN c
    ELSE IF env.delFail \/ <<repoPath, branch_name>> \notin c.branches
    THEN Log(c, Ev("delete_branch", BranchRef(repoPath, branch_name), "failed"))
    ELSE [Log(c, Ev("delete_branch", BranchRef(repoPath, branch_name), "deleted"))
             EXCEPT !.branches = @ \ {<<repoPath, branch_name>>}]

\* A has-session lookup that never finds the session.
TmuxSessionNeverFound(c, name) == FALSE

\* operations._check_tmux (operations.py:15-23): "tmux has-session" is run
\* with check=False, so only a missing executable stops the handler
\* (run_cmd turns FileNotFoundError into typer.Exit(127), utils.py:35-37).
CheckTmux(c, env) ==
    IF ~c.run THEN c
    ELSE IF env.noTmux THEN Exit1(Log(c, Ev("tmux_missing", <<>>, "")), "no_tmux")
    ELSE c

\* operations.tmux_session_exists (operations.py:148-157), after _check_tmux
TmuxSessionExists(c, name) == name \in c.tmux

\* A create_tmux_session that reports its failure and lets the handler go on.
CreateTmuxSessionLenient(c, name, env) ==
    IF ~c.run THEN c
    ELSE IF env.noTmux \/ env.tmuxFail \/ name \in c.tmux
    THEN Log(c, Ev("tmux_new", name, ""))
    ELSE [Log(c, Ev("tmux_new", name, "")) EXCEPT !.tmux = @ \cup {name}]

\* operations.create_tmux_session (operations.py:160-172): tmux refuses a
\* duplicate name; any failure is raised as typer.Exit(1).
CreateTmuxSession(c, name, env) ==
    IF ~CheckTmux(c, env).run THEN CheckTmux(c, env)
    ELSE LET c1 == Log(c, Ev("tmux_new", name, ""))
         IN IF env.tmuxFail \/ name \in c.tmux
            THEN Exit1(c1, "tmux_failed")
            ELSE [c1 EXCEPT !.tmux = @ \cup {name}]

\* operations.kill_tmux_session (operations.py:175-184): _check_tmux is
\* called outside the try; check=False and the except clause make a missing
\* session harmless.
KillTmuxSession(c, name, env) ==
    IF ~CheckTmux(c, env).run THEN CheckTmux(c, env)
    ELSE [Log(c, Ev("tmux_kill", name,
                    IF name \in c.tmux THEN "killed" ELSE "no_session"))
             EXCEPT !.tmux = @ \ {name}]

\* The directory the operating system reaches by the path p: a ".."
\* component goes back to the parent of what was reached so far.
RECURSIVE ResolveFrom(_, _)
ResolveFrom(reached, rest) ==
    IF rest = <<>> THEN reached
    ELSE IF Head(rest) = ".."
    THEN ResolveFrom(IF reached = <<>> THEN reached ELSE Parent(reached),
                     Tail(rest))
    ELSE ResolveFrom(Append(reached, Head(rest)), Tail(rest))

ResolvePath(p) == ResolveFrom(<<>>, p)

\* The rmtree guarded by "exists() and data_dir in path.parents"
\* (core.py:324-332 and 350-358); an OSError is only a warning.  exists()
\* and rmtree go through the file system, Path.parents is computed from the
\* components of the path as it is written.
RmtreeIfManaged(c, path, env) ==
    IF ~c.run THEN c
    ELSE IF ResolvePath(path) \in c.dirs /\ InParents(DataDir, path)
    THEN IF env.treeFail THEN Log(c, Ev("rmtree", path, "failed"))
         ELSE [Log(c, Ev("rmtree", path, "removed"))
                  EXCEPT !.dirs = WithoutTree(@, ResolvePath(path))]
    ELSE c

(***************************************************************************)
(* The lifecycle manager (par/core.py, par/workspace.py).                  *)
(***************************************************************************)
\* A precondition check of a handler: the call is logged and, when it finds
\* what it looks for, the handler reports the error and raises typer.Exit(1).
Check(c, e, bad, why) ==
    IF ~c.run THEN c
    ELSE IF bad THEN Exit1(Log(c, e), why) ELSE Log(c, e)

\* A uniqueness check that looks in the legacy workspaces map only.
ValidateLabelUniqueWorkspacesOnly(state, label) ==
    label \notin DOMAIN state.workspaces

\* core._validate_label_unique (core.py:185-188), on the loaded state
ValidateLabelUnique(state, label) ==
    label \notin DOMAIN state.sessions /\ label \notin DOMAIN state.workspaces

\* core._add_session (core.py:200-204)
AddSession(c, session_data, env) ==
    IF ~c.run THEN c
    ELSE LET ld == LoadGlobalState(c, env)
         IN SaveGlobalState(
                ld.c,
                [ld.state EXCEPT !.sessions = Put(@, session_data.label, session_data)],
                env)

\* The repositories that hold a .par.yaml (initialization.load_par_config,
\* initialization.py:13-27, returns None for the others).
ConfiguredRepos == {RepoPath("r1"), MemberPath("w1", "m1")}

\* core.py:254-257: copy the included files and send the initialization
\* commands to the tmux session.  Both only warn on failure
\* (operations.send_tmux_keys, operations.py:187-197) and touch nothing the
\* model tracks, so the step is its call in the trace.
RunInitialization(c, repo_root, session_name) ==
    IF ~c.run \/ repo_root \notin ConfiguredRepos THEN c
    ELSE Log(c, Ev("run_initialization", session_name, ""))

\* core._remove_session (core.py:207-212)
RemoveSessionRecord(c, label, env) ==
    IF ~c.run THEN c
    ELSE LET ld == LoadGlobalState(c, env)
         IN IF label \in DOMAIN ld.state.sessions
            THEN SaveGlobalState(ld.c,
                                 [ld.state EXCEPT !.sessions = Del(@, label)], env)
            ELSE ld.c

\* A start that takes the worktree and its branch away again when the tmux
\* session could not be created.
StartSessionRollingBack(label, repo, env) ==
    LET repo_root == RepoPath(repo)
        ld == LoadGlobalState(Ctx0, env)
        c1 == Check(ld.c, Ev("check_label", <<>>, label),
                    ~ValidateLabelUnique(ld.state, label), "duplicate")
        worktree_path == GetWorktreePath(repo, label)
        session_name == GetTmuxSessionName(repo, label)
        c2 == IF c1.run THEN MkdirP(c1, Parent(worktree_path)) ELSE c1
        c3 == Check(c2, Ev("check_path", worktree_path, ""),
                    worktree_path \in c2.dirs, "path_exists")
        c4 == Check(CheckTmux(c3, env), Ev("check_tmux", session_name, ""),
                    TmuxSessionExists(c3, session_name), "tmux_exists")
        c5 == CreateWorktree(c4, label, worktree_path, repo_root, env)
        t == CreateTmuxSession(c5, session_name, env)
        c6 == IF t.exit = "tmux_failed"
              THEN [t EXCEPT !.dirs = WithoutTree(@, worktree_path),
                             !.branches = @ \ {<<repo_root, label>>}]
              ELSE t
        c7 == RunInitialization(c6, repo_root, session_name)
        session_data == SessionData(label, "session", repo_root, worktree_path,
                                    session_name, label, "", <<>>)
    IN AddSession(c7, session_data, env)

\* core.start_session (core.py:224-286) with open_session = False
StartSession(label, repo, env) ==
    LET repo_root == RepoPath(repo)
        ld == LoadGlobalState(Ctx0, env)
        c1 == Check(ld.c, Ev("check_label", <<>>, label),
                    ~ValidateLabelUnique(ld.state, label), "duplicate")
        worktree_path == GetWorktreePath(repo, label)
        session_name == GetTmuxSessionName(repo, label)
        c2 == IF c1.run THEN MkdirP(c1, Parent(worktree_path)) ELSE c1
        c3 == Check(c2, Ev("check_path", worktree_path, ""),
                    worktree_path \in c2.dirs, "path_exists")
        c4 == Check(CheckTmux(c3, env), Ev("check_tmux", session_name, ""),
                    TmuxSessionExists(c3, session_name), "tmux_exists")
        c5 == CreateWorktree(c4, label, worktree_path, repo_root, env)
        c6 == CreateTmuxSession(c5, session_name, env)
        c7 == RunInitialization(c6, repo_root, session_name)
        session_data == SessionData(label, "session", repo_root, worktree_path,
                                    session_name, label, "", <<>>)
    IN AddSession(c7, session_data, env)

\* checkout.parse_checkout_target: "pr/<n>" is a pull request, anything else
\* a plain local branch, the empty target is rejected (ValueError).
Targets == {"dev", "pr/1", ""}
ParseCheckoutTarget(target) ==
    IF target = "" THEN
        [ok |-> FALSE, branch_name |-> "",
         strategy |-> [ref |-> "", is_pr |-> FALSE, fetch_remote |-> FALSE]]
    ELSE IF target = "pr/1" THEN
        [ok |-> TRUE, branch_name |-> "pr-1",
         strategy |-> [ref |-> "origin/pull/1/head", is_pr |-> TRUE,
                       fetch_remote |-> FALSE]]
    ELSE
        [ok |-> TRUE, branch_name |-> target,
         strategy |-> [ref |-> target, is_pr |-> FALSE, fetch_remote |-> FALSE]]

\* core.checkout_session (core.py:504-574)
CheckoutSession(target, custom_label, repo, env) ==
    LET p == ParseCheckoutTarget(target)
        c0 == Check(Ctx0, Ev("parse_target", <<>>, target), ~p.ok, "invalid_target")
        label == IF custom_label # NoLabel THEN custom_label ELSE p.branch_name
        repo_root == RepoPath(repo)
        ld == IF c0.run THEN LoadGlobalState(c0, env)
              ELSE [c |-> c0, state |-> EmptyState]
        c1 == Check(ld.c, Ev("check_label", <<>>, label),
                    ~ValidateLabelUnique(ld.state, label), "duplicate")
        worktree_path == GetWorktreePath(repo, label)
        session_name == GetTmuxSessionName(repo, label)
        c2 == IF c1.run THEN MkdirP(c1, Parent(worktree_path)) ELSE c1
        c3 == Check(c2, Ev("check_path", worktree_path, ""),
                    worktree_path \in c2.dirs, "path_exists")
        c4 == Check(CheckTmux(c3, env), Ev("check_tmux", session_name, ""),
                    TmuxSessionExists(c3, session_name), "tmux_exists")
        c5 == CheckoutWorktree(c4, p.branch_name, worktree_path, p.strategy,
                               repo_root, env)
        c6 == CreateTmuxSession(c5, session_name, env)
        c7 == RunInitialization(c6, repo_root, session_name)
        session_data == SessionData(label, "checkout", repo_root, worktree_path,
                                    session_name, p.branch_name, target, <<>>)
    IN AddSession(c7, session_data, env)

\* A loop that stops after the first member repository.
CreateWorkspaceWorktreesFirstOnly(c, root, label, members, env) ==
    IF ~c.run \/ members = <<>> THEN c
    ELSE LET m == Head(members)
             worktree_path == GetWorkspaceWorktreePath(root, label, m)
             c1 == MkdirP(c, Parent(worktree_path))
             c2 == Check(c1, Ev("check_path", worktree_path, ""),
                         worktree_path \in c1.dirs, "path_exists")
         IN CreateWorktree(c2, label, worktree_path, MemberPath(root, m), env)

\* The loop of workspace.start_workspace_session (workspace.py:96-127): for
\* each member in turn, compute the path, check it, create the worktree.
RECURSIVE CreateWorkspaceWorktrees(_, _, _, _, _)
CreateWorkspaceWorktrees(c, root, label, members, env) ==
    IF ~c.run \/ members = <<>> THEN c
    ELSE LET m == Head(members)
             worktree_path == GetWorkspaceWorktreePath(root, label, m)
             c1 == MkdirP(c, Parent(worktree_path))
             c2 == Check(c1, Ev("check_path", worktree_path, ""),
                         worktree_path \in c1.dirs, "path_exists")
             c3 == CreateWorktree(c2, label, worktree_path, MemberPath(root, m), env)
         IN CreateWorkspaceWorktrees(c3, root, label, Tail(members), env)

\* repos_data as built by that loop (workspace.py:120-127)
ReposData(root, label, members) ==
    [i \in 1..Len(members) |->
        RepoData(members[i], MemberPath(root, members[i]),
                 GetWorkspaceWorktreePath(root, label, members[i]), label)]

\* The initialization loop of workspace.py:136-145, one member at a time.
RECURSIVE RunWorkspaceInitialization(_, _, _, _)
RunWorkspaceInitialization(c, root, members, session_name) ==
    IF members = <<>> THEN c
    ELSE RunWorkspaceInitialization(
             RunInitialization(c, MemberPath(root, Head(members)), session_name),
             root, Tail(members), session_name)

\* workspace.start_workspace_session (workspace.py:30-173), repositories
\* auto-detected: members is what utils.detect_git_repos returns.
MemberLists == {<<>>, <<"m2">>, <<"m1", "m2">>}
StartWorkspaceSession(label, root, members, env) ==
    LET ld == LoadGlobalState(Ctx0, env)
        c1 == Check(ld.c, Ev("check_label", <<>>, label),
                    ~ValidateLabelUnique(ld.state, label), "duplicate")
        c2 == Check(c1, Ev("detect_repos", WsRootPath(root), ""),
                    members = <<>>, "no_repos")
        session_name == GetWorkspaceSessionName(root, label)
        c3 == Check(CheckTmux(c2, env), Ev("check_tmux", session_name, ""),
                    TmuxSessionExists(c2, session_name), "tmux_exists")
        c4 == CreateWorkspaceWorktrees(c3, root, label, members, env)
        repos_data == ReposData(root, label, members)
        \* first_worktree_path.parent.parent (workspace.py:130-131)
        workspace_root == Parent(Parent(repos_data[1].worktree_path))
        c5 == CreateTmuxSession(c4, session_name, env)
        c6 == RunWorkspaceInitialization(c5, root, members, session_name)
        workspace_data == SessionData(label, "workspace", workspace_root,
                                      workspace_root, session_name, label, "",
                                      repos_data)
    IN AddSession(c6, workspace_data, env)

\* A teardown that deletes the branch whatever the record type.
RemoveRegularSessionAnyBranch(c, session_data, env) ==
    LET c1 == KillTmuxSession(c, session_data.tmux_session_name, env)
        repo_root == session_data.repository_path
        c2 == RemoveWorktree(c1, session_data.worktree_path, repo_root, env)
        c3 == DeleteBranch(c2, session_data.branch_name, repo_root, env)
    IN RmtreeIfManaged(c3, session_data.worktree_path, env)

\* core._remove_regular_session (core.py:313-332)
RemoveRegularSession(c, session_data, env) ==
    LET c1 == KillTmuxSession(c, session_data.tmux_session_name, env)
        repo_root == session_data.repository_path
        c2 == RemoveWorktree(c1, session_data.worktree_path, repo_root, env)
        c3 == IF session_data.session_type # "checkout"
              THEN DeleteBranch(c2, session_data.branch_name, repo_root, env)
              ELSE c2
    IN RmtreeIfManaged(c3, session_data.worktree_path, env)

\* the loop of core._remove_workspace_session (core.py:342-348)
RECURSIVE RemoveWorkspaceRepos(_, _, _)
RemoveWorkspaceRepos(c, repos_data, env) ==
    IF repos_data = <<>> THEN c
    ELSE LET repo_data == Head(repos_data)
             c1 == RemoveWorktree(c, repo_data.worktree_path, repo_data.repo_path, env)
             c2 == DeleteBranch(c1, repo_data.branch_name, repo_data.repo_path, env)
         IN RemoveWorkspaceRepos(c2, Tail(repos_data), env)

\* core._remove_workspace_session (core.py:335-358)
RemoveWorkspaceSession(c, session_data, env) ==
    LET c1 == KillTmuxSession(c, session_data.tmux_session_name, env)
        c2 == RemoveWorkspaceRepos(c1, session_data.workspace_repos, env)
    IN RmtreeIfManaged(c2, session_data.repository_path, env)

\* core.remove_session (core.py:289-310)
RemoveSession(c0, label, env) ==
    LET ld == LoadGlobalState(c0, env)
        found == label \in DOMAIN ld.state.sessions
        c1 == Check(ld.c, Ev("get_session", <<>>, label), ~found, "not_found")
        c2 == IF ~c1.run THEN c1
              ELSE IF ld.state.sessions[label].session_type = "workspace"
              THEN RemoveWorkspaceSession(c1, ld.state.sessions[label], env)
              ELSE RemoveRegularSession(c1, ld.state.sessions[label], env)
    IN RemoveSessionRecord(c2, label, env)

(***************************************************************************)
(* Opening a session and the access history (core.py:53-99, 470-501).  The  *)
(* context's client is the tmux session of the invoking terminal: Outside   *)
(* when TMUX is unset, OwnSession for a tmux session par does not manage.   *)
(***************************************************************************)
\* F applied to the value of x, x computed once
Then(x, F(_)) == CHOOSE r \in {F(v) : v \in {x}} : TRUE

\* A history update that stores the former last_session as previous_session
\* even when it is the label that is opened.
UpdateLastSessionAlways(c, label, env) ==
    IF ~c.run THEN c
    ELSE LET ld == LoadGlobalState(c, env)
             current_last == ld.state.last_session
         IN SaveGlobalState(
                ld.c,
                [ld.state EXCEPT
                    !.previous_session =
                        IF current_last # NoLabel THEN current_last ELSE @,
                    !.last_session = label],
                env)

\* core._update_last_session (core.py:53-61)
UpdateLastSession(c, label, env) ==
    IF ~c.run THEN c
    ELSE LET ld == LoadGlobalState(c, env)
             current_last == ld.state.last_session
         IN SaveGlobalState(
                ld.c,
                [ld.state EXCEPT
                    !.previous_session =
                        IF current_last # NoLabel /\ current_last # label
                        THEN current_last ELSE @,
                    !.last_session = label],
                env)

\* the loop of core.py:83-88: the tracked label whose tmux session is name
CurrentParSession(state, name) ==
    IF \E l \in DOMAIN state.sessions :
           state.sessions[l].tmux_session_name = name
    THEN CHOOSE l \in DOMAIN state.sessions :
             state.sessions[l].tmux_session_name = name
    ELSE NoLabel

\* A resolution of "-" that always answers the previous label.
ResolveAlwaysPrevious(c, env) ==
    LET ld == LoadGlobalState(c, env)
        previous_session == ld.state.previous_session
    IN IF ~ld.c.run THEN [c |-> ld.c, label |-> NoLabel]
       ELSE IF previous_session = NoLabel
       THEN [c |-> Exit1(ld.c, "no_previous"), label |-> NoLabel]
       ELSE [c |-> Log(ld.c, Ev("resolved", <<"previous_session">>,
                                previous_session)),
             label |-> previous_session]

\* core._resolve_previous_session_label (core.py:70-99); the answer is
\* logged as the call "resolved", with the pointer it was read from.
ResolvePreviousSessionLabel(c, env) ==
    LET ld == LoadGlobalState(c, env)
        previous_session == ld.state.previous_session
        ld2 == LoadGlobalState(ld.c, env)
        current_par_session == CurrentParSession(ld2.state, c.client)
        last_session == ld2.state.last_session
        Answer(cc, ptr, l) ==
            [c |-> Log(cc, Ev("resolved", <<ptr>>, l)), label |-> l]
    IN IF ~ld.c.run THEN [c |-> ld.c, label |-> NoLabel]
       ELSE IF previous_session = NoLabel
       THEN [c |-> Exit1(ld.c, "no_previous"), label |-> NoLabel]
       ELSE IF c.client = Outside THEN Answer(ld.c, "previous_session", previous_session)
       ELSE IF ~ld2.c.run THEN [c |-> ld2.c, label |-> NoLabel]
       ELSE IF current_par_session = previous_session
       THEN IF last_session # NoLabel /\ last_session # current_par_session
            THEN Answer(ld2.c, "last_session", last_session)
            ELSE [c |-> Exit1(ld2.c, "cannot_determine"), label |-> NoLabel]
       ELSE Answer(ld2.c, "previous_session", previous_session)

\* operations.open_tmux_session (operations.py:200-213).  Inside tmux the
\* client is switched, and a failing switch-client raises
\* CalledProcessError.  Outside tmux os.execvp replaces the process by
\* "tmux attach-session": nothing after the call runs.
OpenTmuxSession(c, session_name, env) ==
    IF ~CheckTmux(c, env).run THEN CheckTmux(c, env)
    ELSE IF c.client # Outside
    THEN LET c1 == Log(c, Ev("switch_client", session_name, ""))
         IN IF session_name \in c.tmux
            THEN [c1 EXCEPT !.client = session_name]
            ELSE Exit1(c1, "raised")
    ELSE LET c1 == Log(c, Ev("exec_attach", session_name, ""))
         IN IF session_name \in c.tmux
            THEN [c1 EXCEPT !.client = session_name, !.run = FALSE,
                            !.exit = "attached"]
            ELSE Exit1(c1, "attach_failed")

\* An open that attaches without looking whether the tmux session is there.
OpenSessionAsIs(c0, label, env) ==
    LET Resolve == IF label = "-" THEN ResolvePreviousSessionLabel(c0, env)
                   ELSE [c |-> c0, label |-> label]
        Found(c, l, session_data) ==
            LET session_name == session_data.tmux_session_name
                c1 == CheckTmux(c, env)
                Recreated == c1
            IN Then(Then(Recreated,
                         LAMBDA c2 : OpenTmuxSession(c2, session_name, env)),
                    LAMBDA c3 : UpdateLastSession(c3, l, env))
        Lookup(r, ld) ==
            IF ~ld.c.run THEN ld.c
            ELSE IF r.label \in DOMAIN ld.state.sessions
            THEN Found(ld.c, r.label, ld.state.sessions[r.label])
            ELSE IF r.label \in DOMAIN ld.state.workspaces
            THEN Exit1(Log(ld.c, Ev("open_workspace", <<>>, r.label)),
                       "recursion")
            ELSE Exit1(Log(ld.c, Ev("get_session", <<>>, r.label)), "not_found")
    IN Then(Resolve,
            LAMBDA r :
                Then(IF r.c.run THEN LoadGlobalState(r.c, env)
                     ELSE [c |-> r.c, state |-> EmptyState],
                     LAMBDA ld : Lookup(r, ld)))

\* core.open_session (core.py:470-501).  A label found only in
\* state["workspaces"] goes to workspace.open_workspace_session
\* (workspace.py:212-215), which calls core.open_session with the same
\* label again: the calls nest until Python raises RecursionError.
OpenSession(c0, label, env) ==
    LET Resolve == IF label = "-" THEN ResolvePreviousSessionLabel(c0, env)
                   ELSE [c |-> c0, label |-> label]
        Found(c, l, session_data) ==
            LET session_name == session_data.tmux_session_name
                c1 == CheckTmux(c, env)
                \* tmux_cwd: the directory create_tmux_session is given
                Recreated == IF c1.run /\ ~TmuxSessionExists(c1, session_name)
                             THEN CreateTmuxSession(
                                      Log(c1, Ev("tmux_cwd",
                                                 session_data.worktree_path, "")),
                                      session_name, env)
                             ELSE c1
            IN Then(Then(Recreated,
                         LAMBDA c2 : OpenTmuxSession(c2, session_name, env)),
                    LAMBDA c3 : UpdateLastSession(c3, l, env))
        Lookup(r, ld) ==
            IF ~ld.c.run THEN ld.c
            ELSE IF r.label \in DOMAIN ld.state.sessions
            THEN Found(ld.c, r.label, ld.state.sessions[r.label])
            ELSE IF r.label \in DOMAIN ld.state.workspaces
            THEN Exit1(Log(ld.c, Ev("open_workspace", <<>>, r.label)),
                       "recursion")
            ELSE Exit1(Log(ld.c, Ev("get_session", <<>>, r.label)), "not_found")
    IN Then(Resolve,
            LAMBDA r :
                Then(IF r.c.run THEN LoadGlobalState(r.c, env)
                     ELSE [c |-> r.c, state |-> EmptyState],
                     LAMBDA ld : Lookup(r, ld)))

(***************************************************************************)
(* Removing everything (core.py:367-393, workspace.py:224-253).  order is   *)
(* the order in which the document lists its labels, confirm the answer     *)
(* typed at the prompt.                                                     *)
(***************************************************************************)
\* the sequences that list every element of the set S once
Orders(S) ==
    {q \in UNION {[1..n -> S] : n \in {Cardinality(S)}} :
        \A i, j \in DOMAIN q : i # j => q[i] # q[j]}

\* the loop of core.py:388-391: an exit of remove_session ends the command
RECURSIVE RemoveEach(_, _, _)
RemoveEach(c, labels, env) ==
    IF labels = <<>> THEN c
    ELSE Then(RemoveSession(c, Head(labels), env),
              LAMBDA c1 : RemoveEach(c1, Tail(labels), env))

\* A remove_all_sessions that does not ask.
RemoveAllSessionsUnasked(c0, order, confirm, env) ==
    LET ld == LoadGlobalState(c0, env)
        labels == SelectSeq(order, LAMBDA l : l \in DOMAIN ld.state.sessions)
        asked == Log(ld.c, Ev("confirm", <<>>, IF confirm THEN "yes" ELSE "no"))
    IN IF ~ld.c.run THEN ld.c
       ELSE IF labels = <<>> THEN Log(ld.c, Ev("nothing", <<>>, ""))
       ELSE RemoveEach(asked, labels, env)

\* core.remove_all_sessions (core.py:367-393); a declined typer.confirm
\* with abort=True raises typer.Abort
RemoveAllSessions(c0, order, confirm, env) ==
    LET ld == LoadGlobalState(c0, env)
        labels == SelectSeq(order, LAMBDA l : l \in DOMAIN ld.state.sessions)
        asked == Log(ld.c, Ev("confirm", <<>>, IF confirm THEN "yes" ELSE "no"))
    IN IF ~ld.c.run THEN ld.c
       ELSE IF labels = <<>> THEN Log(ld.c, Ev("nothing", <<>>, ""))
       ELSE IF ~confirm THEN Exit1(asked, "aborted")
       ELSE RemoveEach(asked, labels, env)

\* try: remove_workspace_session(label) / except typer.Exit: pass
\* (workspace.py:246-251); the end of the process is not an exception
Caught(c) ==
    IF c.exit = "interrupted" THEN c
    ELSE [c EXCEPT !.run = TRUE, !.exit = "ok"]

\* the loop of workspace.py:245-251
RECURSIVE RemoveEachWorkspace(_, _, _)
RemoveEachWorkspace(c, labels, env) ==
    IF labels = <<>> \/ ~c.run THEN c
    ELSE Then(Caught(RemoveSession(c, Head(labels), env)),
              LAMBDA c1 : RemoveEachWorkspace(c1, Tail(labels), env))

\* workspace.remove_all_workspace_sessions (workspace.py:224-253)
RemoveAllWorkspaceSessions(c0, order, confirm, env) ==
    LET ld == LoadGlobalState(c0, env)
        labels ==
            SelectSeq(order,
                   LAMBDA l : /\ l \in DOMAIN ld.state.sessions
                              /\ ld.state.sessions[l].session_type = "workspace")
        asked == Log(ld.c, Ev("confirm", <<>>, IF confirm THEN "yes" ELSE "no"))
    IN IF ~ld.c.run THEN ld.c
       ELSE IF labels = <<>> THEN Log(ld.c, Ev("nothing", <<>>, ""))
       ELSE IF ~confirm THEN Log(asked, Ev("cancelled", <<>>, ""))
       ELSE RemoveEachWorkspace(asked, labels, env)

\* core.list_sessions (core.py:424-430): par ls loads the global state.
ListSessions(c0, env) ==
    Then(LoadGlobalState(c0, env),
         LAMBDA ld : Log(ld.c, Ev("listed", <<>>, "")))

(***************************************************************************)
(* The StateManager (par/state_manager.py).  A document maps scope keys to  *)
(* sub-documents.  A file is absent, holds a document, is empty, holds a    *)
(* prefix of a document's JSON text ("text": decodable, not JSON) or holds  *)
(* bytes that are not valid UTF-8 ("bytes"); d tells the contents apart.    *)
(***************************************************************************)
STATE_CACHE_TTL == 30
TickStep == 15       \* seconds between two looks at the clock
MaxNow == 45         \* the clock stops here
MaxStoreOps == 3     \* StateManager calls per behaviour
Keys == {"k1", "k2"}
SubA == "x" :> 1
SubB == "y" :> 2
NoSub == EmptyMap    \* the sub-document {}
EmptyDoc == EmptyMap \* the document {}

AbsentS == [t |-> "absent", d |-> EmptyDoc]
EmptyS == [t |-> "empty", d |-> EmptyDoc]
DocS(doc) == [t |-> "doc", d |-> doc]
TextS(doc) == [t |-> "text", d |-> doc]
BytesS(doc) == [t |-> "bytes", d |-> doc]

None == [some |-> FALSE, doc |-> EmptyDoc]
Some(doc) == [some |-> TRUE, doc |-> doc]

\* The manager and its files at the start of a call.  pre is the cached
\* document the call started from, saving whether the call reached save,
\* hit whether load answered from the cache.
SCtx0 ==
    [file |-> sfile, tmp |-> stmp, backup |-> sbackup, cache |-> cache,
     cacheTime |-> cacheTime, exit |-> "ok", ret |-> EmptyDoc, hit |-> FALSE,
     pre |-> cache, saving |-> FALSE, doc |-> EmptyDoc, data |-> NoSub]

\* StateManager.load (state_manager.py:29-68) at time t
Load(s, t) ==
    IF s.cache.some /\ t - s.cacheTime < STATE_CACHE_TTL
    THEN [s EXCEPT !.ret = s.cache.doc, !.hit = TRUE]
    ELSE IF s.file.t = "absent" \/ s.file.t = "empty"
    THEN [s EXCEPT !.cache = Some(EmptyDoc), !.cacheTime = t, !.ret = EmptyDoc]
    ELSE IF s.file.t = "doc"
    THEN [s EXCEPT !.cache = Some(s.file.d), !.cacheTime = t, !.ret = s.file.d]
    ELSE IF s.file.t = "text"
    THEN \* json.JSONDecodeError: copy the file to the backup, start fresh
         [s EXCEPT !.backup = s.file, !.cache = Some(EmptyDoc),
                   !.cacheTime = t, !.ret = EmptyDoc]
    ELSE \* UnicodeDecodeError is not a JSONDecodeError: lines 66-68
         [s EXCEPT !.exit = "exit1"]

\* What can happen to a save: nothing, an exception while the temporary
\* file is written or at the replace, or the end of the process while the
\* temporary file is written, before the replace or after it.
SaveFaults ==
    {"none", "fail_write", "fail_replace",
     "crash_write", "crash_before_replace", "crash_after_replace"}

\* A save that writes the state file itself, as open(state_file, "w") does.
SaveInPlace(s, state, fault, t) ==
    IF s.exit # "ok" THEN s
    ELSE LET s1 == [s EXCEPT !.saving = TRUE, !.doc = state]
         IN IF fault = "none"
            THEN [s1 EXCEPT !.file = DocS(state), !.cache = Some(state),
                            !.cacheTime = t]
            ELSE IF fault \in {"fail_write", "fail_replace"}
            THEN [s1 EXCEPT !.file = TextS(state), !.exit = "exit1"]
            ELSE IF fault = "crash_write"
            THEN [s1 EXCEPT !.file = TextS(state), !.cache = None,
                            !.cacheTime = 0, !.exit = "crash"]
            ELSE [s1 EXCEPT !.file = DocS(state), !.cache = None,
                            !.cacheTime = 0, !.exit = "crash"]

\* StateManager.save (state_manager.py:70-94) at time t.  An exception
\* unlinks the temporary file and raises typer.Exit(1); the end of the
\* process leaves the files as they are and loses the cache.
Save(s, state, fault, t) ==
    IF s.exit # "ok" THEN s
    ELSE LET s1 == [s EXCEPT !.saving = TRUE, !.doc = state]
         IN IF fault = "none"
            THEN [s1 EXCEPT !.file = DocS(state), !.tmp = AbsentS,
                            !.cache = Some(state), !.cacheTime = t]
            ELSE IF fault \in {"fail_write", "fail_replace"}
            THEN [s1 EXCEPT !.tmp = AbsentS, !.exit = "exit1"]
            ELSE IF fault = "crash_write"
            THEN [s1 EXCEPT !.tmp = TextS(state), !.cache = None,
                            !.cacheTime = 0, !.exit = "crash"]
            ELSE IF fault = "crash_before_replace"
            THEN [s1 EXCEPT !.tmp = DocS(state), !.cache = None,
                            !.cacheTime = 0, !.exit = "crash"]
            ELSE [s1 EXCEPT !.file = DocS(state), !.tmp = AbsentS,
                            !.cache = None, !.cacheTime = 0, !.exit = "crash"]

\* StateManager.get_scoped_data (state_manager.py:96-99)
GetScopedData(s, scope_key, t) ==
    LET l == Load(s, t)
    IN IF l.exit # "ok" THEN l
       ELSE [l EXCEPT !.ret = IF scope_key \in DOMAIN l.ret
                               THEN l.ret[scope_key] ELSE NoSub]

\* An update_scoped_data that stores the empty sub-document under its key.
UpdateScopedDataKeepingEmpty(s, scope_key, data, fault, t) ==
    LET l == Load([s EXCEPT !.data = data], t)
        state == Put(l.ret, scope_key, data)
    IN IF l.exit # "ok" THEN l
       ELSE Save([l EXCEPT !.pre = l.cache, !.cache = Some(state)],
                 state, fault, t)

\* StateManager.update_scoped_data (state_manager.py:101-111).  load returns
\* the cache object itself, so the assignment of line 106 (or the pop of
\* line 109) changes the cache before save is called.
UpdateScopedData(s, scope_key, data, fault, t) ==
    LET l == Load([s EXCEPT !.data = data], t)
        state == IF data # NoSub THEN Put(l.ret, scope_key, data)
                 ELSE Del(l.ret, scope_key)
    IN IF l.exit # "ok" THEN l
       ELSE Save([l EXCEPT !.pre = l.cache, !.cache = Some(state)],
                 state, fault, t)

\* StateManager.remove_scope (state_manager.py:113-118), same aliasing
RemoveScope(s, scope_key, fault, t) ==
    LET l == Load(s, t)
    IN IF l.exit # "ok" \/ scope_key \notin DOMAIN l.ret THEN l
       ELSE Save([l EXCEPT !.pre = l.cache,
                           !.cache = Some(Del(l.ret, scope_key))],
                 Del(l.ret, scope_key), fault, t)

\* An invalidate_cache that leaves the cache as it is.
InvalidateNothing(s) == s

\* StateManager.invalidate_cache (state_manager.py:120-123)
InvalidateCache(s) == [s EXCEPT !.cache = None, !.cacheTime = 0]

\* invalidated: the call before this one was invalidate_cache
SInitLast ==
    [op |-> "init", key |-> "", exit |-> "ok", ret |-> EmptyDoc, hit |-> FALSE,
     pre |-> None, saving |-> FALSE, doc |-> EmptyDoc, data |-> NoSub,
     invalidated |-> FALSE]

\* StateManager.__init__ (state_manager.py:17-27), no file yet
StoreInit ==
    /\ sfile = AbsentS
    /\ stmp = AbsentS
    /\ sbackup = AbsentS
    /\ cache = None
    /\ cacheTime = 0
    /\ now = 0
    /\ slast = SInitLast
    /\ scmd = 0

(***************************************************************************)
(* The control center (operations.open_control_center and                  *)
(* operations._update_control_center_windows).  The tmux session           *)
(* "control-center" is a set of windows; tmux gives a new window the       *)
(* lowest free index and destroys a session when its last window closes.   *)
(***************************************************************************)
MaxCCSteps == 3      \* control center steps per behaviour
WinNames == {"A", "B", "C"}
PathOf(name) == <<"wt", name>>
Context(name) == [name |-> name, path |-> PathOf(name)]

CCtx0 ==
    [alive |-> ccAlive, wins |-> ccWins, nextId |-> ccNextId, run |-> TRUE,
     exit |-> "ok", ev |-> <<>>]

\* tmux list-windows: the windows by ascending index
ListWindows(wins) ==
    [i \in 1..Cardinality(wins) |->
        CHOOSE w \in wins : Cardinality({v \in wins : v.idx < w.idx}) = i - 1]

\* tmux new-window -t session -n name -c path; run_cmd raises
\* CalledProcessError when there is no such session (utils.py:29-34).
NewWindow(k, name, path) ==
    IF ~k.run THEN k
    ELSE IF ~k.alive
    THEN [k EXCEPT !.run = FALSE, !.exit = "raised",
                   !.ev = Append(@, <<"new_window_failed", name>>)]
    ELSE LET used == {w.idx : w \in k.wins}
             idx == CHOOSE i \in 0..Cardinality(k.wins) :
                        i \notin used /\ \A j \in 0..(i - 1) : j \in used
         IN [k EXCEPT !.wins = @ \cup {[idx |-> idx, id |-> k.nextId,
                                        name |-> name, path |-> path]},
                      !.nextId = @ + 1,
                      !.ev = Append(@, <<"new_window", name>>)]

\* tmux kill-window -t session:idx, its failure swallowed
\* (operations.py:240-243); the last window takes the session with it.
KillWindow(k, idx) ==
    IF ~k.alive \/ idx \notin {w.idx : w \in k.wins}
    THEN [k EXCEPT !.ev = Append(@, <<"kill_window_failed", ToString(idx)>>)]
    ELSE [k EXCEPT !.wins = {w \in @ : w.idx # idx},
                   !.alive = ({w \in k.wins : w.idx # idx} # {}),
                   !.ev = Append(@, <<"kill_window", ToString(idx)>>)]

\* current_windows (operations.py:223-227): name -> index, the last listed
\* window of a name wins
CurrentWindows(listing) ==
    [nm \in {listing[i].name : i \in DOMAIN listing} |->
        listing[CHOOSE i \in DOMAIN listing :
                    /\ listing[i].name = nm
                    /\ \A j \in DOMAIN listing :
                           listing[j].name = nm => j <= i].idx]

\* the loop of operations.py:237-243 over current_windows.items(), in the
\* order the names were first listed
RECURSIVE KillStale(_, _, _, _)
KillStale(k, listing, i, expected) ==
    IF i > Len(listing) THEN k
    ELSE LET nm == listing[i].name
             first == \A j \in 1..(i - 1) : listing[j].name # nm
         IN IF first /\ nm \notin expected
            THEN KillStale(KillWindow(k, CurrentWindows(listing)[nm]),
                           listing, i + 1, expected)
            ELSE KillStale(k, listing, i + 1, expected)

\* the loop of operations.py:246-253
RECURSIVE AddMissing(_, _, _)
AddMissing(k, contexts, existing_names) ==
    IF ~k.run \/ contexts = <<>> THEN k
    ELSE LET context == Head(contexts)
         IN AddMissing(IF context.name \notin existing_names
                       THEN NewWindow(k, context.name, context.path)
                       ELSE k,
                       Tail(contexts), existing_names)

\* A reconciler that gives up on an unreadable session without killing it.
UpdateControlCenterWindowsNoKill(k, contexts_data, listFail) ==
    IF listFail \/ ~k.alive
    THEN k @@ [updated |-> FALSE]
    ELSE LET listing == ListWindows(k.wins)
             expected == {contexts_data[i].name : i \in DOMAIN contexts_data}
             existing_names == {listing[i].name : i \in DOMAIN listing}
             k1 == KillStale(k, listing, 1, expected)
         IN AddMissing(k1, contexts_data, existing_names) @@ [updated |-> TRUE]

\* operations._update_control_center_windows (operations.py:216-260).
\* The result has updated = FALSE when the windows could not be listed and
\* the session was killed instead.
UpdateControlCenterWindows(k, contexts_data, listFail) ==
    IF listFail \/ ~k.alive
    THEN [k EXCEPT !.alive = FALSE, !.wins = {},
                   !.ev = Append(@, <<"kill_session", "">>)]
         @@ [updated |-> FALSE]
    ELSE LET listing == ListWindows(k.wins)
             expected == {contexts_data[i].name : i \in DOMAIN contexts_data}
             existing_names == {listing[i].name : i \in DOMAIN listing}
             k1 == KillStale(k, listing, 1, expected)
         IN AddMissing(k1, contexts_data, existing_names) @@ [updated |-> TRUE]

\* operations.open_tmux_session (operations.py:200-213) from outside tmux:
\* tmux attach-session replaces the process
Attach(k) ==
    IF ~k.run THEN k
    ELSE [k EXCEPT !.run = FALSE,
                   !.exit = IF k.alive THEN "attached" ELSE "attach_failed",
                   !.ev = Append(@, <<"attach", "">>)]

\* the creation of operations.open_control_center (operations.py:289-309):
\* a session with one window, renamed after the first context, then one
\* window for every other context
RECURSIVE NewWindows(_, _)
NewWindows(k, contexts) ==
    IF contexts = <<>> THEN k
    ELSE NewWindows(NewWindow(k, Head(contexts).name, Head(contexts).path),
                    Tail(contexts))

\* A creation that leaves the window tmux new-session made as it is and
\* opens one window for every context.
CreateControlCenterKeepingDefault(k, contexts_data) ==
    IF k.alive
    THEN [k EXCEPT !.run = FALSE, !.exit = "exit1",
                   !.ev = Append(@, <<"new_session_failed", "">>)]
    ELSE LET first_context == Head(contexts_data)
             w0 == [idx |-> 0, id |-> k.nextId, name |-> "default",
                    path |-> first_context.path]
             k1 == [k EXCEPT !.alive = TRUE, !.wins = {w0}, !.nextId = @ + 1,
                             !.ev = Append(@, <<"new_session", "">>)]
         IN Attach(NewWindows(k1, contexts_data))

\* tmux new-session fails on a session name that is taken, and
\* create_tmux_session turns that into typer.Exit(1) (operations.py:160-172).
CreateControlCenter(k, contexts_data) ==
    IF k.alive
    THEN [k EXCEPT !.run = FALSE, !.exit = "exit1",
                   !.ev = Append(@, <<"new_session_failed", "">>)]
    ELSE LET first_context == Head(contexts_data)
             w0 == [idx |-> 0, id |-> k.nextId, name |-> first_context.name,
                    path |-> first_context.path]
             k1 == [k EXCEPT !.alive = TRUE, !.wins = {w0}, !.nextId = @ + 1,
                             !.ev = @ \o << <<"new_session", "">>,
                                            <<"rename_window", first_context.name>> >>]
         IN Attach(NewWindows(k1, Tail(contexts_data)))

\* An overview command that skips the two refusals of operations.py:267-275.
OpenControlCenterAnywhere(k, contexts_data, insideTmux, listFail) ==
    IF contexts_data = <<>>
    THEN [k EXCEPT !.alive = FALSE, !.wins = {}, !.run = FALSE, !.exit = "nothing",
                   !.ev = Append(@, <<"kill_session", "">>)]
    ELSE IF k.alive
    THEN LET u == UpdateControlCenterWindows(
                      [k EXCEPT !.ev = Append(@, <<"has_session", "">>)],
                      contexts_data, listFail)
             k1 == [f \in DOMAIN k |-> u[f]]
         IN IF u.updated THEN Attach(k1)
            ELSE CreateControlCenter(k1, contexts_data)
    ELSE CreateControlCenter(k, contexts_data)

\* operations.open_control_center (operations.py:263-309), tmux installed
OpenControlCenter(k, contexts_data, insideTmux, listFail) ==
    IF insideTmux THEN [k EXCEPT !.run = FALSE, !.exit = "exit1"]
    ELSE IF contexts_data = <<>> THEN [k EXCEPT !.run = FALSE, !.exit = "nothing"]
    ELSE IF k.alive
    THEN LET u == UpdateControlCenterWindows(
                      [k EXCEPT !.ev = Append(@, <<"has_session", "">>)],
                      contexts_data, listFail)
             k1 == [f \in DOMAIN k |-> u[f]]
         IN IF u.updated THEN Attach(k1)
            ELSE CreateControlCenter(k1, contexts_data)
    ELSE CreateControlCenter(k, contexts_data)

CCInitLast ==
    [op |-> "init", desired |-> <<>>, insideTmux |-> FALSE, listFail |-> FALSE,
     exit |-> "ok", ev |-> <<>>]

CCInit ==
    /\ ccAlive = FALSE
    /\ ccWins = {}
    /\ ccNextId = 1
    /\ ccLast = CCInitLast
    /\ ccn = 0

(***************************************************************************)
(* StateManager.save run by two processes at once, with a third process    *)
(* reading state_file (state_manager.py:70-94).  Files are inodes: a name   *)
(* points to an inode, open(.., "w") truncates the inode the name points    *)
(* to (or makes a new one), a descriptor keeps writing to its inode         *)
(* whatever the names do, and replace moves a name.  Each document reaches  *)
(* its file in one write.                                                   *)
(***************************************************************************)
MaxReads == 2        \* reads of state_file per behaviour
Writers == {1, 2}
DocOf(w) == IF w = 1 THEN "D1" ELSE "D2"
NoInode == 0

\* the length of a content: D1 is the longer document, "mixed" is D2
\* followed by the rest of D1
ContentLen(x) ==
    IF x = "empty" THEN 0 ELSE IF x = "D2" THEN 1 ELSE 2

\* f.write at offset 0 of a file that holds x
WriteOver(x, d) == IF ContentLen(x) > ContentLen(d) THEN "mixed" ELSE d

RaceInit ==
    /\ rInodes = <<"D0">>
    /\ rStateFile = 1
    /\ rTempFile = NoInode
    /\ rPc = [w \in Writers |-> "start"]
    /\ rFd = [w \in Writers |-> NoInode]
    /\ rObs = "none"
    /\ rReads = 0
    /\ rLastReplace = 0

(***************************************************************************)
(* The lifecycle specification.                                            *)
(***************************************************************************)
\* The legacy files a data directory may hold when the program first runs:
\* none, or a state.json and a workspaces.json whose labels collide.
LegacyConfigs ==
    {<<<<>>, <<>>>>,
     <<<<[repo |-> "r1", label |-> "a", branch |-> "a", is_checkout |-> FALSE]>>,
       <<[root |-> "w1", label |-> "a"]>>>>}

InitLast ==
    [op |-> "init", label |-> "", repo |-> "", target |-> "", exit |-> "ok",
     ev |-> <<>>]

Init ==
    /\ gfile = AbsentFile
    /\ \E cfg \in LegacyConfigs :
          /\ legacyState = cfg[1]
          /\ legacyWs = cfg[2]
          /\ dirs = {DataDir}
                    \cup UNION {Ancestors(GetWorktreePath(e.repo, e.label)) :
                                e \in Range(cfg[1])}
          /\ branches = {<<RepoPath(r), "dev">> : r \in Repos}
                        \cup {<<RepoPath(e.repo), e.branch>> : e \in Range(cfg[1])}
    /\ backups = EmptyMap
    /\ tmux = {}
    /\ last = InitLast
    /\ ncmd = 0
    /\ client = Outside
    /\ procs = NoProcs
    /\ StoreInit
    /\ CCInit
    /\ RaceInit

\* The handler ran to the context c: its effects and what is known of it.
\* target is the checkout target, or the member list of a workspace start.
Record(op, label, repo, target, c) ==
    /\ ncmd' = ncmd + 1
    /\ gfile' = c.gfile
    /\ backups' = c.backups
    /\ dirs' = c.dirs
    /\ tmux' = c.tmux
    /\ branches' = c.branches
    \* tmux detaches the clients of a session that is killed
    /\ client' = IF c.client \in c.tmux \cup {OwnSession} THEN c.client
                 ELSE Outside
    /\ last' = [op |-> op, label |-> label, repo |-> repo, target |-> target,
                exit |-> c.exit, ev |-> c.ev]
    /\ UNCHANGED <<legacyState, legacyWs, procs>>
    /\ UNCHANGED <<storeVars, ccVars, raceVars>>

Commit(op, label, repo, target, c) ==
    ncmd < MaxCmds /\ Record(op, label, repo, target, c)

\* The command lines tried: label "a" in both repositories, "dev" in r1.
StartInputs == {<<"a", "r1">>, <<"a", "r2">>, <<"dev", "r1">>}
\* <<target, custom label, repository>>
CheckoutInputs ==
    {<<"dev", NoLabel, "r1">>, <<"dev", "a", "r2">>, <<"pr/1", "a", "r1">>,
     <<"", "a", "r1">>}

DoStartSession ==
    \E in \in StartInputs, env \in CreateEnvs :
        Commit("start", in[1], in[2], "", StartSession(in[1], in[2], env))

DoCheckoutSession ==
    \E in \in CheckoutInputs, env \in CreateEnvs :
        Commit("checkout",
               IF in[2] # NoLabel THEN in[2]
               ELSE ParseCheckoutTarget(in[1]).branch_name,
               in[3], in[1], CheckoutSession(in[1], in[2], in[3], env))

\* <<label, members>>: label "a" over every member list, "dev" over both
WorkspaceInputs ==
    {in \in Labels \X MemberLists : in[1] = "a" \/ Len(in[2]) = Len(WsMembers)}

DoStartWorkspace ==
    \E in \in WorkspaceInputs, root \in WsRoots, env \in CreateEnvs :
        Commit("workspace", in[1], root, in[2],
               StartWorkspaceSession(in[1], root, in[2], env))

\* The resources live outside the program: before a removal runs, the tmux
\* session may have been killed and worktree directories and branches
\* deleted by hand.  gone is what disappeared since the last command.
Interfered(c, gone) ==
    [c EXCEPT !.tmux = @ \ gone.tmux,
              !.dirs = {d \in @ : \A g \in gone.dirs : ~IsPrefix(g, d)},
              !.branches = @ \ gone.branches]

WorktreeDirs(ds) ==
    {d \in ds \ {DataDir} : Len(d) = IF d[2] = "workspaces" THEN 5 ELSE 4}

\* <<env, tmux sessions gone, worktree directories gone, branches gone>>:
\* a removal meets resources that are gone, or tools that fail.
RemoveCases ==
    {<<NoFault, t, d, b>> : t \in BOOLEAN, d \in BOOLEAN, b \in BOOLEAN}
    \cup {<<env, FALSE, FALSE, FALSE>> : env \in TeardownEnvs}

\* par rm <label>: any label the user may type, tracked or not
DoRemoveSession ==
    \E label \in Labels \cup Tracked(gfile), rc \in RemoveCases :
        LET gone == [tmux |-> IF rc[2] THEN tmux ELSE {},
                     dirs |-> IF rc[3] THEN WorktreeDirs(dirs) ELSE {},
                     branches |-> IF rc[4]
                                  THEN {b \in branches : b[2] # "dev"} ELSE {}]
        IN Commit("remove", label, "", "",
                  RemoveSession(Interfered(Ctx0, gone), label, rc[1]))

Next ==
    \/ DoStartSession
    \/ DoCheckoutSession
    \/ DoStartWorkspace
    \/ DoRemoveSession

Spec == Init /\ [][Next]_vars

(***************************************************************************)
(* The StateManager specification: one manager object of one process, the  *)
(* clock, and what other programs do to the file.  After the process ended *)
(* in a save, the next call is made by a new process (its cache is None).  *)
(***************************************************************************)
LifeIdle ==
    /\ gfile = AbsentFile
    /\ legacyState = <<>>
    /\ legacyWs = <<>>
    /\ backups = EmptyMap
    /\ dirs = {DataDir}
    /\ tmux = {}
    /\ branches = {}
    /\ last = InitLast
    /\ ncmd = 0
    /\ client = Outside
    /\ procs = NoProcs

InitStore == LifeIdle /\ StoreInit /\ CCInit /\ RaceInit

\* The call ran to the context s at a time when the clock shows now.
SCommit(op, key, s) ==
    /\ scmd < MaxStoreOps
    /\ scmd' = scmd + 1
    /\ sfile' = s.file
    /\ stmp' = s.tmp
    /\ sbackup' = s.backup
    /\ cache' = s.cache
    /\ cacheTime' = s.cacheTime
    /\ slast' = [op |-> op, key |-> key, exit |-> s.exit, ret |-> s.ret,
                 hit |-> s.hit, pre |-> s.pre, saving |-> s.saving,
                 doc |-> s.doc, data |-> s.data,
                 invalidated |-> (slast.op = "invalidate")]
    /\ UNCHANGED now
    /\ UNCHANGED <<lifeVars, ccVars, raceVars>>

\* the documents a caller saves and the sub-documents it stores
SaveDocs == {EmptyDoc, "k1" :> SubA, ("k1" :> SubB) @@ ("k2" :> SubA)}
SubDocs == {NoSub, SubA, SubB}

\* A load that takes the time the cache was filled for the time it is.
SLoadFrozenClock == SCommit("load", "", Load(SCtx0, cacheTime))

SLoad == SCommit("load", "", Load(SCtx0, now))

SSave ==
    \E state \in SaveDocs, fault \in SaveFaults :
        SCommit("save", "", Save(SCtx0, state, fault, now))

SGetScopedData ==
    \E k \in Keys : SCommit("get", k, GetScopedData(SCtx0, k, now))

SUpdateScopedData ==
    \E k \in Keys, data \in SubDocs, fault \in SaveFaults :
        SCommit("update", k, UpdateScopedData(SCtx0, k, data, fault, now))

SRemoveScope ==
    \E k \in Keys, fault \in SaveFaults :
        SCommit("remove_scope", k, RemoveScope(SCtx0, k, fault, now))

SInvalidateCache == SCommit("invalidate", "", InvalidateCache(SCtx0))

Tick ==
    /\ now + TickStep <= MaxNow
    /\ now' = now + TickStep
    /\ UNCHANGED <<sfile, stmp, sbackup, cache, cacheTime, slast, scmd>>
    /\ UNCHANGED <<lifeVars, ccVars, raceVars>>

\* Another program (or a failing disk) rewrites the state file.
ExternalContents ==
    {DocS("k2" :> SubB), EmptyS, TextS("k1" :> SubA), BytesS("k1" :> SubA)}

ExternalWrite ==
    /\ scmd < MaxStoreOps
    /\ \E f \in ExternalContents : sfile' = f /\ f # sfile
    /\ slast' = [SInitLast EXCEPT !.op = "external"]
    /\ UNCHANGED <<stmp, sbackup, cache, cacheTime, now, scmd>>
    /\ UNCHANGED <<lifeVars, ccVars, raceVars>>

NextStore ==
    \/ SLoad
    \/ SSave
    \/ SGetScopedData
    \/ SUpdateScopedData
    \/ SRemoveScope
    \/ SInvalidateCache
    \/ Tick
    \/ ExternalWrite

SpecStore == InitStore /\ [][NextStore]_vars

(***************************************************************************)
(* The control center specification: par control-center is run with the    *)
(* desired list of the moment; between two runs the user opens and closes  *)
(* windows of the overview session or kills it.                            *)
(***************************************************************************)
InitCC == LifeIdle /\ StoreInit /\ CCInit /\ RaceInit

CCStep ==
    /\ ccn < MaxCCSteps
    /\ ccn' = ccn + 1
    /\ UNCHANGED <<lifeVars, storeVars, raceVars>>

\* desired lists: up to two entries with different names
DesiredLists ==
    {<<>>} \cup {<<Context(a)>> : a \in WinNames}
    \cup {<<Context(p[1]), Context(p[2])>> :
              p \in {q \in WinNames \X WinNames : q[1] # q[2]}}

CCCommit(op, contexts, insideTmux, listFail, k) ==
    /\ CCStep
    /\ ccAlive' = k.alive
    /\ ccWins' = k.wins
    /\ ccNextId' = k.nextId
    /\ ccLast' = [op |-> op, desired |-> contexts, insideTmux |-> insideTmux,
                  listFail |-> listFail, exit |-> k.exit, ev |-> k.ev]

DoOpenControlCenter ==
    \E contexts \in DesiredLists, insideTmux \in BOOLEAN, listFail \in BOOLEAN :
        /\ listFail => ccAlive /\ ~insideTmux /\ contexts # <<>>
        /\ CCCommit("open", contexts, insideTmux, listFail,
                    OpenControlCenter(CCtx0, contexts, insideTmux, listFail))

\* the user opens a window in the overview session
UserNewWindow ==
    \E nm \in WinNames :
        /\ ccAlive
        /\ CCCommit("user_new", <<>>, FALSE, FALSE,
                    [NewWindow(CCtx0, nm, <<"home">>) EXCEPT !.ev = <<>>])

\* the user closes a window of the overview session
UserKillWindow ==
    \E w \in ccWins :
        CCCommit("user_kill", <<>>, FALSE, FALSE,
                 [KillWindow(CCtx0, w.idx) EXCEPT !.ev = <<>>])

NextCC ==
    \/ DoOpenControlCenter
    \/ UserNewWindow
    \/ UserKillWindow

SpecCC == InitCC /\ [][NextCC]_vars

(***************************************************************************)
(* The navigation specification: sessions are started, opened (by label or *)
(* by "-") and removed with no tool failing, and between two commands the   *)
(* user may move the terminal to another tmux session by hand.              *)
(***************************************************************************)
MaxNavCmds == 5      \* par commands per behaviour

\* par start <label>
NavStart ==
    \E in \in StartInputs :
        /\ ncmd < MaxNavCmds
        /\ Record("start", in[1], in[2], "", StartSession(in[1], in[2], NoFault))

\* par checkout dev
NavCheckout ==
    /\ ncmd < MaxNavCmds
    /\ Record("checkout", "dev", "r1", "dev",
              CheckoutSession("dev", NoLabel, "r1", NoFault))

\* par open <label> and par open -
NavOpen ==
    \E label \in Labels \cup Tracked(gfile) \cup {"-"} :
        /\ ncmd < MaxNavCmds
        /\ Record("open", label, "", "", OpenSession(Ctx0, label, NoFault))

\* par rm <label>
NavRemove ==
    \E label \in Tracked(gfile) :
        /\ ncmd < MaxNavCmds
        /\ Record("remove", label, "", "", RemoveSession(Ctx0, label, NoFault))

\* par workspace start <label>, both repositories detected
NavStartWorkspace ==
    \E label \in Labels :
        /\ ncmd < MaxNavCmds
        /\ Record("workspace", label, "w1", WsMembers,
                  StartWorkspaceSession(label, "w1", WsMembers, NoFault))

\* the environments a removal of everything meets: every tool working, no
\* tmux executable, git and rmtree failing
RemoveAllEnvs ==
    {NoFault, [NoFault EXCEPT !.noTmux = TRUE],
     [NoFault EXCEPT !.rmFail = TRUE, !.delFail = TRUE, !.treeFail = TRUE]}

\* par rm all
NavRemoveAll ==
    \E order \in Orders(DOMAIN View(gfile).sessions), confirm \in BOOLEAN,
       env \in RemoveAllEnvs :
        /\ ncmd < MaxNavCmds
        /\ Record("remove_all", "", "", "",
                  RemoveAllSessions(Ctx0, order, confirm, env))

\* par workspace rm all
NavRemoveAllWorkspaces ==
    \E order \in Orders(DOMAIN View(gfile).sessions), confirm \in BOOLEAN,
       env \in RemoveAllEnvs :
        /\ ncmd < MaxNavCmds
        /\ Record("remove_all_workspaces", "", "", "",
                  RemoveAllWorkspaceSessions(Ctx0, order, confirm, env))

\* tmux attach / switch-client / detach typed by the user
UserSwitch ==
    \E s \in tmux \cup {OwnSession, Outside} :
        /\ s # client
        /\ client' = s
        /\ last' = [InitLast EXCEPT !.op = "user_switch"]
        /\ UNCHANGED <<gfile, legacyState, legacyWs, backups, dirs, tmux,
                       branches, ncmd, procs>>
        /\ UNCHANGED <<storeVars, ccVars, raceVars>>

NextNav ==
    \/ NavStart
    \/ NavCheckout
    \/ NavOpen
    \/ NavRemove
    \/ NavStartWorkspace
    \/ NavRemoveAll
    \/ NavRemoveAllWorkspaces
    \/ UserSwitch

SpecNav == Init /\ [][NextNav]_vars

(***************************************************************************)
(* The migration specification: the first commands of an installation that *)
(* was left with legacy state files.  state.json maps repository paths to  *)
(* labels, workspaces.json maps workspace roots to labels, so an entry is   *)
(* named once and the entries of a repository follow each other.            *)
(***************************************************************************)
MaxMigEntries == 3   \* session entries of the legacy state.json
MaxMigCmds == 2      \* commands per behaviour

LegacySessionEntries ==
    {[repo |-> r, label |-> l, branch |-> l, is_checkout |-> (r = "r2")] :
        r \in Repos, l \in {"a", "a-r2-1"}}

LegacyWorkspaceEntries == {[root |-> "w1", label |-> l] : l \in {"a", "a-w1-1"}}

\* the sequences a JSON object of objects can be read as
FileOrders(entries, n, group(_)) ==
    {q \in UNION {[1..m -> entries] : m \in 0..n} :
        /\ \A i, j \in DOMAIN q : i # j => q[i] # q[j]
        /\ \A i, j, k \in DOMAIN q :
               (i < j /\ j < k /\ group(q[i]) = group(q[k]))
                   => group(q[j]) = group(q[i])}

MigConfigs ==
    FileOrders(LegacySessionEntries, MaxMigEntries, LAMBDA e : e.repo)
    \X FileOrders(LegacyWorkspaceEntries, 2, LAMBDA e : e.root)

InitMig ==
    /\ gfile = AbsentFile
    /\ \E cfg \in MigConfigs :
          /\ legacyState = cfg[1]
          /\ legacyWs = cfg[2]
          /\ dirs = {DataDir}
                    \cup UNION {Ancestors(GetWorktreePath(e.repo, e.label)) :
                                e \in Range(cfg[1])}
          /\ branches = {<<RepoPath(r), "dev">> : r \in Repos}
                        \cup {<<RepoPath(e.repo), e.branch>> : e \in Range(cfg[1])}
    /\ backups = EmptyMap
    /\ tmux = {}
    /\ last = InitLast
    /\ ncmd = 0
    /\ client = Outside
    /\ procs = NoProcs
    /\ StoreInit
    /\ CCInit
    /\ RaceInit

\* par ls
MigList ==
    /\ ncmd < MaxMigCmds
    /\ Record("ls", "", "", "", ListSessions(Ctx0, NoFault))

\* par rm <label>
MigRemove ==
    \E label \in TrackedSessions(gfile) :
        /\ ncmd < MaxMigCmds
        /\ Record("remove", label, "", "", RemoveSession(Ctx0, label, NoFault))

NextMig ==
    \/ MigList
    \/ MigRemove

SpecMig == InitMig /\ [][NextMig]_vars

(***************************************************************************)
(* The concurrency specification: two par start invocations, each a        *)
(* process of its own, interleaved at the calls start_session makes         *)
(* (core.py:224-270).  _add_session (core.py:200-204) is a load followed by *)
(* a save; every other call is one step.  Every tool works.                 *)
(***************************************************************************)
Procs == {1, 2}
ConcLabels == {"a", "b"}

\* the command lines of the two invocations
ConcInputs == [Procs -> ConcLabels \X Repos]

InitConc ==
    /\ gfile = AbsentFile
    /\ legacyState = <<>>
    /\ legacyWs = <<>>
    /\ backups = EmptyMap
    /\ dirs = {DataDir}
    /\ tmux = {}
    /\ branches = {<<RepoPath(r), "dev">> : r \in Repos}
    /\ last = InitLast
    /\ ncmd = 0
    /\ client = Outside
    /\ \E in \in ConcInputs :
          procs = [p \in Procs |->
                      [pc |-> "validate", label |-> in[p][1], repo |-> in[p][2],
                       loaded |-> EmptyState, exit |-> "ok"]]
    /\ StoreInit
    /\ CCInit
    /\ RaceInit

\* The invocation p made a call that ended in the context c.
PCommit(p, c, next, loaded) ==
    /\ gfile' = c.gfile
    /\ backups' = c.backups
    /\ dirs' = c.dirs
    /\ tmux' = c.tmux
    /\ branches' = c.branches
    /\ procs' = [procs EXCEPT ![p] =
                     [@ EXCEPT !.pc = IF c.run THEN next ELSE "failed",
                               !.exit = c.exit,
                               !.loaded = loaded]]
    /\ UNCHANGED <<legacyState, legacyWs, last, ncmd, client>>
    /\ UNCHANGED <<storeVars, ccVars, raceVars>>

\* _validate_label_unique (core.py:226-229)
PValidate(p) ==
    /\ procs[p].pc = "validate"
    /\ LET ld == LoadGlobalState(Ctx0, NoFault)
       IN PCommit(p, Check(ld.c, Ev("check_label", <<>>, procs[p].label),
                           ~ValidateLabelUnique(ld.state, procs[p].label),
                           "duplicate"),
                  "check_path", procs[p].loaded)

\* utils.get_worktree_path and worktree_path.exists() (core.py:235-243)
PCheckPath(p) ==
    /\ procs[p].pc = "check_path"
    /\ LET worktree_path == GetWorktreePath(procs[p].repo, procs[p].label)
           c2 == MkdirP(Ctx0, Parent(worktree_path))
       IN PCommit(p, Check(c2, Ev("check_path", worktree_path, ""),
                           worktree_path \in c2.dirs, "path_exists"),
                  "check_tmux", procs[p].loaded)

\* operations.tmux_session_exists (core.py:245-247)
PCheckTmux(p) ==
    /\ procs[p].pc = "check_tmux"
    /\ LET session_name == GetTmuxSessionName(procs[p].repo, procs[p].label)
       IN PCommit(p, Check(CheckTmux(Ctx0, NoFault),
                           Ev("check_tmux", session_name, ""),
                           TmuxSessionExists(Ctx0, session_name), "tmux_exists"),
                  "create_worktree", procs[p].loaded)

\* operations.create_worktree (core.py:250)
PCreateWorktree(p) ==
    /\ procs[p].pc = "create_worktree"
    /\ PCommit(p, CreateWorktree(Ctx0, procs[p].label,
                                 GetWorktreePath(procs[p].repo, procs[p].label),
                                 RepoPath(procs[p].repo), NoFault),
               "create_tmux", procs[p].loaded)

\* operations.create_tmux_session (core.py:251)
PCreateTmux(p) ==
    /\ procs[p].pc = "create_tmux"
    /\ PCommit(p, CreateTmuxSession(Ctx0,
                                    GetTmuxSessionName(procs[p].repo, procs[p].label),
                                    NoFault),
               "add_load", procs[p].loaded)

\* _add_session: state = _load_global_state() (core.py:202)
PAddLoad(p) ==
    /\ procs[p].pc = "add_load"
    /\ LET ld == LoadGlobalState(Ctx0, NoFault)
       IN PCommit(p, ld.c, "add_save", ld.state)

\* _add_session: the assignment and _save_global_state(state)
\* (core.py:203-204)
PAddSave(p) ==
    /\ procs[p].pc = "add_save"
    /\ LET label == procs[p].label
           repo == procs[p].repo
           session_data == SessionData(label, "session", RepoPath(repo),
                                       GetWorktreePath(repo, label),
                                       GetTmuxSessionName(repo, label), label,
                                       "", <<>>)
       IN PCommit(p, SaveGlobalState(Ctx0,
                                     [procs[p].loaded EXCEPT
                                         !.sessions = Put(@, label, session_data)],
                                     NoFault),
                  "done", procs[p].loaded)

NextConc ==
    \/ \E p \in Procs : PValidate(p)
    \/ \E p \in Procs : PCheckPath(p)
    \/ \E p \in Procs : PCheckTmux(p)
    \/ \E p \in Procs : PCreateWorktree(p)
    \/ \E p \in Procs : PCreateTmux(p)
    \/ \E p \in Procs : PAddLoad(p)
    \/ \E p \in Procs : PAddSave(p)

SpecConc == InitConc /\ [][NextConc]_vars

(***************************************************************************)
(* The stored-path specification: removals over a state file whose records *)
(* hold any path, as a file that is plain JSON on disk may: the path par    *)
(* made, a directory outside the data directory, and a path that starts in  *)
(* the data directory and leaves it through "..".                           *)
(***************************************************************************)
MaxEditCmds == 2     \* removals per behaviour

HomeDirs == {<<"home">>, <<"home", "r1">>, <<"home", "r1", "src">>}

StoredPaths(label) ==
    {GetWorktreePath("r1", label), <<"home", "r1">>,
     DataDir \o <<"..", "home", "r1">>}

\* the records a state file may hold for the label: a session with the
\* stored worktree path, or a workspace with the stored workspace root
StoredRecords(label) ==
    {SessionData(label, "session", RepoPath("r1"), path,
                 GetTmuxSessionName("r1", label), label, "", <<>>) :
        path \in StoredPaths(label)}
    \cup {SessionData(label, "workspace", path, path,
                      GetWorkspaceSessionName("w1", label), label, "", <<>>) :
              path \in StoredPaths(label)}

StoredSessions ==
    UNION {[L -> UNION {StoredRecords(l) : l \in L}] : L \in (SUBSET Labels) \ {{}}}

InitEdit ==
    /\ \E m \in StoredSessions :
          /\ \A l \in DOMAIN m : m[l].label = l
          /\ gfile = DocFile([EmptyState EXCEPT !.sessions = m])
    /\ legacyState = <<>>
    /\ legacyWs = <<>>
    /\ backups = EmptyMap
    /\ dirs = HomeDirs
              \cup UNION {Ancestors(GetWorktreePath("r1", l)) : l \in Labels}
    /\ tmux = {GetTmuxSessionName("r1", l) : l \in Labels}
    /\ branches = {<<RepoPath("r1"), l>> : l \in Labels}
    /\ last = InitLast
    /\ ncmd = 0
    /\ client = Outside
    /\ procs = NoProcs
    /\ StoreInit
    /\ CCInit
    /\ RaceInit

\* git worktree remove and git branch -d work on par's own worktree and
\* refuse a path that is no worktree of the repository
GitOn(session_data) ==
    IF /\ session_data.session_type = "session"
       /\ session_data.worktree_path
              = GetWorktreePath("r1", session_data.label)
    THEN NoFault
    ELSE [NoFault EXCEPT !.rmFail = TRUE, !.delFail = TRUE]

\* par rm <label>
EditRemove ==
    \E label \in TrackedSessions(gfile) :
        /\ ncmd < MaxEditCmds
        /\ Record("remove", label, "", "",
                  RemoveSession(Ctx0, label, GitOn(gfile.d.sessions[label])))

NextEdit == EditRemove

SpecEdit == InitEdit /\ [][NextEdit]_vars

(***************************************************************************)
(* The race specification: every interleaving of the steps of two saves    *)
(* and of the reads.                                                        *)
(***************************************************************************)
InitRace == LifeIdle /\ StoreInit /\ CCInit /\ RaceInit

RaceIdle == UNCHANGED <<lifeVars, storeVars, ccVars>>

\* open(temp_file, "w") (state_manager.py:79)
WOpen(w) ==
    /\ rPc[w] = "start"
    /\ IF rTempFile = NoInode
       THEN /\ rInodes' = Append(rInodes, "empty")
            /\ rTempFile' = Len(rInodes) + 1
            /\ rFd' = [rFd EXCEPT ![w] = Len(rInodes) + 1]
       ELSE /\ rInodes' = [rInodes EXCEPT ![rTempFile] = "empty"]
            /\ rFd' = [rFd EXCEPT ![w] = rTempFile]
            /\ UNCHANGED rTempFile
    /\ rPc' = [rPc EXCEPT ![w] = "opened"]
    /\ UNCHANGED <<rStateFile, rObs, rReads, rLastReplace>>
    /\ RaceIdle

\* json.dump(state, f) and the end of the with block (state_manager.py:79-80)
WWrite(w) ==
    /\ rPc[w] = "opened"
    /\ rInodes' = [rInodes EXCEPT ![rFd[w]] = WriteOver(@, DocOf(w))]
    /\ rPc' = [rPc EXCEPT ![w] = "written"]
    /\ UNCHANGED <<rStateFile, rTempFile, rFd, rObs, rReads, rLastReplace>>
    /\ RaceIdle

\* temp_file.replace(self.state_file) (state_manager.py:83); with no
\* temp_file it raises FileNotFoundError
WReplace(w) ==
    /\ rPc[w] = "written"
    /\ IF rTempFile = NoInode
       THEN /\ rPc' = [rPc EXCEPT ![w] = "raised"]
            /\ UNCHANGED <<rStateFile, rTempFile, rLastReplace>>
       ELSE /\ rStateFile' = rTempFile
            /\ rTempFile' = NoInode
            /\ rLastReplace' = w
            /\ rPc' = [rPc EXCEPT ![w] = "saved"]
    /\ UNCHANGED <<rInodes, rFd, rObs, rReads>>
    /\ RaceIdle

\* the except clause: temp_file.unlink(missing_ok=True), typer.Exit(1)
\* (state_manager.py:89-94)
WCleanup(w) ==
    /\ rPc[w] = "raised"
    /\ rTempFile' = NoInode
    /\ rPc' = [rPc EXCEPT ![w] = "exit1"]
    /\ UNCHANGED <<rInodes, rStateFile, rFd, rObs, rReads, rLastReplace>>
    /\ RaceIdle

\* the reader: open(state_file) and f.read() (state_manager.py:42-44)
RRead ==
    /\ rReads < MaxReads
    /\ rReads' = rReads + 1
    /\ rObs' = IF rStateFile = NoInode THEN "absent" ELSE rInodes[rStateFile]
    /\ UNCHANGED <<rInodes, rStateFile, rTempFile, rPc, rFd, rLastReplace>>
    /\ RaceIdle

NextRace ==
    \/ \E w \in Writers : WOpen(w)
    \/ \E w \in Writers : WWrite(w)
    \/ \E w \in Writers : WReplace(w)
    \/ \E w \in Writers : WCleanup(w)
    \/ RRead

SpecRace == InitRace /\ [][NextRace]_vars

(***************************************************************************)
(* Properties of the lifecycle specification.                              *)
(***************************************************************************)
CreateOps == {"start", "checkout", "workspace"}
EffectCalls == {"fetch", "worktree_add", "tmux_new"}
CheckCalls == {"check_label", "check_path", "check_tmux"}

\* what the handler of the command l called
Called(l, name) == \E i \in DOMAIN l.ev : l.ev[i][1] = name
CalledOn(l, name, a) ==
    \E i \in DOMAIN l.ev : l.ev[i][1] = name /\ l.ev[i][2] = a
NoEffectCalls(l) == \A i \in DOMAIN l.ev : l.ev[i][1] \notin EffectCalls

\* C1: a label names at most one tracked record, whatever its repository or
\* record type: every record is stored under its own label, no label is in
\* both maps of the state file, and a create command (start, checkout,
\* workspace) whose label is already tracked fails before it creates a
\* worktree or a tmux session and leaves the state file as it was.
C1_LabelGloballyUnique ==
    [][ /\ TrackedSessions(gfile') \cap TrackedWorkspaces(gfile') = {}
        /\ \A l \in TrackedSessions(gfile') : gfile'.d.sessions[l].label = l
        /\ (last'.op \in CreateOps /\ last'.label \in Tracked(gfile))
              => /\ last'.exit \in {"duplicate", "invalid_target"}
                 /\ NoEffectCalls(last')
                 /\ UNCHANGED <<gfile, dirs, tmux, branches>> ]_vars

\* C1 happens: a create command was refused as a duplicate of a record that
\* belongs to another repository, or to a record of another type.
C1_Witness ==
    /\ last.op \in CreateOps
    /\ last.exit = "duplicate"
    /\ last.label \in TrackedSessions(gfile)
    /\ LET rec == gfile.d.sessions[last.label]
       IN \/ last.op = "start" /\ rec.repository_path # RepoPath(last.repo)
          \/ last.op = "workspace" /\ rec.session_type = "checkout"

\* C2: in start and checkout the three precondition checks (label unique,
\* worktree path free, tmux session name free) are all made before the first
\* external effect (fetch, worktree creation, tmux session creation); and
\* when the label is tracked, the path exists or the session is live, the
\* command fails without any effect call, without a new worktree, tmux
\* session or branch, and without a new record.
C2_ChecksBeforeEffects ==
    [][ last'.op \in {"start", "checkout"} =>
          LET path == GetWorktreePath(last'.repo, last'.label)
              name == GetTmuxSessionName(last'.repo, last'.label)
              loaded == View(gfile)
              ev == last'.ev
          IN /\ \A i, j \in DOMAIN ev :
                    (ev[i][1] \in CheckCalls /\ ev[j][1] \in EffectCalls) => i < j
             /\ ~NoEffectCalls(last') => \A k \in CheckCalls : Called(last', k)
             /\ (\/ last'.label \in DOMAIN loaded.sessions \cup DOMAIN loaded.workspaces
                 \/ path \in dirs
                 \/ name \in tmux)
                => /\ last'.exit # "ok"
                   /\ NoEffectCalls(last')
                   /\ WorktreeDirs(dirs') = WorktreeDirs(dirs)
                   /\ tmux' = tmux
                   /\ branches' = branches
                   /\ DOMAIN View(gfile').sessions \subseteq DOMAIN loaded.sessions
      ]_vars

\* C2 happens: the label was free and the worktree path too, and the command
\* stopped at the check of the tmux session name.
C2_Witness ==
    /\ last.op \in {"start", "checkout"}
    /\ last.exit = "tmux_exists"
    /\ GetTmuxSessionName(last.repo, last.label) \in tmux
    /\ GetWorktreePath(last.repo, last.label) \notin dirs

\* the worktree creation (with its fetch) or the tmux session creation of the
\* command l was attempted and did not produce its resource
FailedCreation(l, ds, tm) ==
    \/ \E i \in DOMAIN l.ev : l.ev[i][1] = "worktree_add" /\ l.ev[i][2] \notin ds
    \/ \E i \in DOMAIN l.ev : l.ev[i][1] = "tmux_new" /\ l.ev[i][2] \notin tm
    \/ Called(l, "fetch") /\ ~Called(l, "worktree_add")

C5_GlobalStateFileAlwaysComplete ==
    gfile.t \in {"absent", "doc"}

\* C8 as stated: a command that finds the global state file unparsable goes
\* on with an empty document and keeps a backup copy of the unparsable
\* content.
C8_CorruptGlobalStateBackedUp ==
    [][ (gfile.t = "partial" /\ Called(last', "warn_corrupted"))
          => \E n \in DOMAIN backups' :
                 backups'[n].t = "partial" /\ backups'[n].d = gfile.d ]_vars

\* C9 as stated: a removal of a tracked label that is not interrupted while
\* it writes the state file ends normally with the record deleted and with
\* the kill of the tmux session, the removal of every worktree and the
\* deletion of every branch par created attempted, whatever is already gone
\* and whichever of these steps fails.
C9_RemoveAlwaysCompletes ==
    [][ ( /\ last'.op = "remove"
          /\ last'.label \in DOMAIN View(gfile).sessions
          /\ last'.exit # "interrupted" )
          => LET rec == View(gfile).sessions[last'.label]
             IN /\ last'.exit = "ok"
                /\ last'.label \notin DOMAIN View(gfile').sessions
                /\ CalledOn(last', "tmux_kill", rec.tmux_session_name)
                /\ rec.session_type # "workspace"
                     => CalledOn(last', "worktree_remove", rec.worktree_path)
                /\ rec.session_type = "session"
                     => CalledOn(last', "delete_branch",
                                 BranchRef(rec.repository_path, rec.branch_name))
                /\ rec.session_type = "workspace"
                     => \A i \in DOMAIN rec.workspace_repos :
                            CalledOn(last', "worktree_remove",
                                     rec.workspace_repos[i].worktree_path)
      ]_vars

C11_UntrackedRemoveCleansUp ==
    [][ ( /\ last'.op = "remove"
          /\ last'.label \notin DOMAIN View(gfile).sessions
          /\ last'.exit # "interrupted" )
          => /\ last'.exit = "ok"
             /\ Called(last', "tmux_kill")
             /\ Called(last', "worktree_remove")
             /\ Called(last', "delete_branch") ]_vars

\* C13 as stated: a workspace creation that finds the worktree path of one
\* of its members already there fails as a whole and has made nothing: no
\* worktree and no branch for any member, no tmux session, no record.
C13_WorkspacePathCheckedFirst ==
    [][ ( /\ last'.op = "workspace"
          /\ \E i \in DOMAIN last'.ev :
                 last'.ev[i][1] = "check_path" /\ last'.ev[i][2] \in dirs )
          => /\ last'.exit = "path_exists"
             /\ NoEffectCalls(last')
             /\ WorktreeDirs(dirs') = WorktreeDirs(dirs)
             /\ branches' = branches
             /\ tmux' = tmux
             /\ last'.label \notin Tracked(gfile') ]_vars

\* the status of a record; the records of core.py:260-269 carry none
StatusOf(rec) == IF "status" \in DOMAIN rec THEN rec.status ELSE "none"

\* C14 as stated: a successful start writes the store twice once the worktree
\* and the tmux session are made, the post-creation commands run between the
\* two writes, and the record ends with status ready.
C14_InitializingThenReady ==
    [][ (last'.op = "start" /\ last'.exit = "ok")
          => /\ StatusOf(gfile'.d.sessions[last'.label]) = "ready"
             /\ \E t, i, k \in DOMAIN last'.ev :
                    /\ t < i /\ i < k
                    /\ last'.ev[t][1] = "tmux_new"
                    /\ last'.ev[i][1] = "save"
                    /\ last'.ev[k][1] = "save"
                    /\ \A j \in DOMAIN last'.ev :
                           last'.ev[j][1] = "run_initialization"
                               => (i < j /\ j < k) ]_vars

\* C15 as stated: a start whose label is already a local branch of the
\* repository attaches the new worktree to that branch: the worktree is made,
\* no branch is created, and the creation does not fail.
C15_ExistingBranchIsAttached ==
    [][ ( /\ last'.op = "start"
          /\ <<RepoPath(last'.repo), last'.label>> \in branches
          /\ Called(last', "worktree_add") )
          => /\ last'.exit # "worktree_failed"
             /\ GetWorktreePath(last'.repo, last'.label) \in dirs'
             /\ branches' = branches ]_vars

\* C27: a par workspace start that succeeds over the member repositories
\* R1..Rn makes exactly the n worktree directories of its members, makes in
\* each member repository the branch named after the label and no other
\* branch, makes exactly one tmux session, and adds exactly one record, of
\* type workspace, whose workspace_repos are those members in order with
\* their worktree paths and the label as branch name.  With no repository
\* named or detected the command fails with no git or tmux call, no new
\* directory, branch or tmux session and no new record.
C27_WorkspaceCreatesOnePerMember ==
    [][ last'.op = "workspace" =>
          LET label == last'.label
              root == last'.repo
              members == last'.target
              paths == {GetWorkspaceWorktreePath(root, label, members[i]) :
                            i \in DOMAIN members}
              session_name == GetWorkspaceSessionName(root, label)
              before == View(gfile).sessions
              after == View(gfile').sessions
          IN /\ last'.exit = "ok"
                  => /\ Cardinality(paths) = Len(members)
                     /\ WorktreeDirs(dirs') \ WorktreeDirs(dirs) = paths
                     /\ dirs \subseteq dirs'
                     /\ branches' \ branches =
                            {<<MemberPath(root, members[i]), label>> :
                                 i \in DOMAIN members}
                     /\ branches \subseteq branches'
                     /\ tmux' \ tmux = {session_name}
                     /\ tmux \subseteq tmux'
                     /\ label \notin DOMAIN before
                     /\ DOMAIN after = DOMAIN before \cup {label}
                     /\ \A l \in DOMAIN before : after[l] = before[l]
                     /\ after[label].session_type = "workspace"
                     /\ after[label].tmux_session_name = session_name
                     /\ after[label].workspace_repos =
                            [i \in DOMAIN members |->
                                RepoData(members[i], MemberPath(root, members[i]),
                                         GetWorkspaceWorktreePath(root, label,
                                                                  members[i]),
                                         label)]
                     /\ View(gfile').workspaces = View(gfile).workspaces
             /\ members = <<>>
                  => /\ last'.exit # "ok"
                     /\ NoEffectCalls(last')
                     /\ dirs' = dirs
                     /\ branches' = branches
                     /\ tmux' = tmux
                     /\ DOMAIN after \subseteq DOMAIN before ]_vars

C27_Witness ==
    /\ last.op = "workspace"
    /\ last.exit = "ok"
    /\ Len(last.target) = 2
    /\ Cardinality(WorktreeDirs(dirs)) >= 2
    /\ last.label \in TrackedSessions(gfile)

\* C28: par checkout of a pull request runs git fetch for the pull
\* request's ref before every git worktree add, and adds the worktree from
\* FETCH_HEAD; when the command ends normally the worktree was added; when
\* the fetch fails the command fails with no git worktree add and no tmux
\* session creation, and the worktree directory, the tmux sessions, the
\* branches and the records are as before.
C28_PullRequestFetchedFirst ==
    [][ ( /\ last'.op = "checkout"
          /\ ParseCheckoutTarget(last'.target).strategy.is_pr )
          => LET ev == last'.ev
                 ref == ParseCheckoutTarget(last'.target).strategy.ref
                 repo_root == RepoPath(last'.repo)
                 path == GetWorktreePath(last'.repo, last'.label)
             IN /\ \A j \in DOMAIN ev :
                       ev[j][1] = "worktree_add"
                           => /\ ev[j] = Ev("worktree_add", path, "FETCH_HEAD")
                              /\ \E i \in 1..(j - 1) :
                                     ev[i] = Ev("fetch", repo_root, ref)
                /\ last'.exit = "ok"
                       => Called(last', "worktree_add") /\ path \in dirs'
                /\ Called(last', "fetch_error")
                       => /\ last'.exit = "fetch_failed"
                          /\ ~Called(last', "worktree_add")
                          /\ ~Called(last', "tmux_new")
                          /\ path \notin dirs'
                          /\ tmux' = tmux
                          /\ branches' = branches
                          /\ View(gfile').sessions = View(gfile).sessions ]_vars

C28_Witness ==
    /\ last.op = "checkout"
    /\ last.target = "pr/1"
    /\ last.exit = "fetch_failed"
    /\ Called(last, "fetch_error")
    /\ GetWorktreePath(last.repo, last.label) \notin dirs

\* C29: when par start has added the worktree and the creation of the tmux
\* session then fails, the command fails and leaves the new worktree
\* directory and the new branch in place, with no tmux session and no
\* record for the label; and a par start whose worktree path exists while
\* the label is not tracked fails on the path check, with no git or tmux
\* creation call and nothing changed.
C29_FailedCreationIsNotRolledBack ==
    [][ last'.op = "start" =>
          LET label == last'.label
              repo_root == RepoPath(last'.repo)
              path == GetWorktreePath(last'.repo, label)
              name == GetTmuxSessionName(last'.repo, label)
              before == View(gfile)
          IN /\ last'.exit = "tmux_failed"
                  => /\ Called(last', "worktree_add")
                     /\ path \notin dirs
                     /\ path \in dirs'
                     /\ <<repo_root, label>> \in branches'
                     /\ name \notin tmux'
                     /\ tmux' = tmux
                     /\ label \notin DOMAIN View(gfile').sessions
                     /\ View(gfile').sessions = before.sessions
             /\ ( /\ path \in dirs
                  /\ label \notin DOMAIN before.sessions \cup DOMAIN before.workspaces )
                  => /\ last'.exit = "path_exists"
                     /\ NoEffectCalls(last')
                     /\ dirs' = dirs
                     /\ branches' = branches
                     /\ tmux' = tmux
                     /\ View(gfile').sessions = before.sessions ]_vars

\* the retry: the worktree is there, the tmux session and the record are
\* not, and the start was refused
C29_Witness ==
    /\ last.op = "start"
    /\ last.exit = "path_exists"
    /\ GetWorktreePath(last.repo, last.label) \in dirs
    /\ <<RepoPath(last.repo), last.label>> \in branches
    /\ GetTmuxSessionName(last.repo, last.label) \notin tmux
    /\ last.label \notin Tracked(gfile)

(***************************************************************************)
(* Properties of the control center specification.                         *)
(***************************************************************************)
WinNameSet(wins) == {w.name : w \in wins}
DesiredNames(contexts) == {contexts[i].name : i \in DOMAIN contexts}

\* C12 as stated: par control-center, run outside tmux with a non-empty
\* desired list D while the overview session exists and its windows can be
\* listed, leaves the session alive with exactly the window names of D; the
\* windows whose name is in D are the same windows as before and every
\* other window of the result was made at the path of its entry of D.
C12_ReconcileYieldsDesired ==
    [][ ( /\ ccLast'.op = "open"
          /\ ccAlive
          /\ ccLast'.desired # <<>>
          /\ ~ccLast'.insideTmux
          /\ ~ccLast'.listFail )
          => /\ ccAlive'
             /\ ccLast'.exit = "attached"
             /\ WinNameSet(ccWins') = DesiredNames(ccLast'.desired)
             /\ \A w \in ccWins : w.name \in DesiredNames(ccLast'.desired)
                                     => w \in ccWins'
             /\ \A w \in ccWins' \ ccWins : w.path = PathOf(w.name) ]_vars

\* the windows of the overview session by ascending index, as name and path
WindowList(wins) ==
    [i \in 1..Cardinality(wins) |->
        [name |-> ListWindows(wins)[i].name, path |-> ListWindows(wins)[i].path]]

C25_UnreadableSessionIsRecreated ==
    [][ ( /\ ccLast'.op = "open"
          /\ ccAlive
          /\ ccLast'.listFail )
          => /\ \E i, j \in DOMAIN ccLast'.ev :
                    /\ i < j
                    /\ ccLast'.ev[i] = <<"kill_session", "">>
                    /\ ccLast'.ev[j] = <<"new_session", "">>
             /\ ccAlive'
             /\ ccLast'.exit = "attached"
             /\ ccWins' \cap ccWins = {}
             /\ WindowList(ccWins') = ccLast'.desired ]_vars

C25_Witness ==
    /\ ccLast.op = "open"
    /\ ccLast.listFail
    /\ Len(ccLast.desired) = 2
    /\ ccLast.exit = "attached"
    /\ WindowList(ccWins) = ccLast.desired

(***************************************************************************)
(* Properties of the StateManager specification.                           *)
(***************************************************************************)
\* C4: a save of the document D that fails or is cut short by the end of
\* the process, at whatever point, leaves in the state file either exactly
\* what was there or the complete document D; and a load that reads a file
\* holding a document returns that document.  So the load after such a save
\* returns the document of before the save or D, never a part of one.
C4_InterruptedSaveOldOrNew ==
    [][ /\ (slast'.saving /\ slast'.exit \in {"exit1", "crash"})
             => sfile' \in {sfile, DocS(slast'.doc)}
        /\ (slast'.op = "load" /\ ~slast'.hit /\ sfile.t = "doc")
             => /\ slast'.exit = "ok"
                /\ slast'.ret = sfile.d
                /\ sfile' = sfile ]_vars

\* C4 happens: the temporary file still holds the part of a document that an
\* interrupted save wrote, and the load of the new process read the state
\* file and returned the complete document of before that save.
C4_Witness ==
    /\ slast.op = "load"
    /\ ~slast.hit
    /\ slast.exit = "ok"
    /\ stmp.t = "text"
    /\ sfile.t = "doc"
    /\ sfile.d # stmp.d
    /\ slast.ret = sfile.d

\* C6 as stated: when save raises, called directly or through
\* update_scoped_data or remove_scope, the state file is what it was and the
\* cache holds the document it held before the change that was not saved.
C6_FailedSaveKeepsFileAndCache ==
    [][ (slast'.saving /\ slast'.exit = "exit1")
          => /\ sfile' = sfile
             /\ cache' = slast'.pre ]_vars

\* C7 as stated: a load that reads a state file that is not JSON does not
\* raise, returns the empty document and leaves the backup file holding
\* exactly what the state file holds; a load answered from the cache leaves
\* the backup file alone.
C7_CorruptFileBackedUpOnce ==
    [][ /\ (slast'.op = "load" /\ ~slast'.hit /\ sfile.t \in {"text", "bytes"})
             => /\ slast'.exit = "ok"
                /\ slast'.ret = EmptyDoc
                /\ sbackup' = sfile
        /\ (slast'.op = "load" /\ slast'.hit) => sbackup' = sbackup ]_vars


\* the document a load finds in a file it can read: the file's document, the
\* empty document for a missing, an empty or a non-JSON file
DocRead(f) == IF f.t = "doc" THEN f.d ELSE EmptyDoc

\* C18: a load with no cache (the first call) or with a cache filled at
\* least STATE_CACHE_TTL seconds ago reads the file: it returns what the file
\* holds and refills the cache at the current time.  Any other load returns
\* the cached document and reads nothing, whatever the file holds by now;
\* so a document returned from the cache was filled less than
\* STATE_CACHE_TTL seconds before.
C18_LoadCachesForTtl ==
    [][ (slast'.op = "load" /\ scmd' = scmd + 1)
          => IF cache.some /\ now - cacheTime < STATE_CACHE_TTL
             THEN /\ slast'.hit
                  /\ slast'.exit = "ok"
                  /\ slast'.ret = cache.doc
                  /\ UNCHANGED <<sfile, sbackup, cache, cacheTime>>
             ELSE /\ ~slast'.hit
                  /\ slast'.exit = "ok"
                       => /\ slast'.ret = DocRead(sfile)
                          /\ cache' = Some(slast'.ret)
                          /\ cacheTime' = now
                  /\ slast'.exit # "ok" => sfile.t = "bytes" ]_vars

\* C18 happens: the file was rewritten by another program after the cache
\* was filled, and a load within the window returned the cached document,
\* not the one the file holds.
C18_Witness ==
    /\ slast.op = "load"
    /\ slast.hit
    /\ sfile.t = "doc"
    /\ slast.ret # sfile.d
    /\ now > cacheTime

\* C19: invalidate_cache empties the cache and touches no file, and the load
\* that comes next reads the file and returns the document it holds now,
\* however recently the cache had been filled.
C19_InvalidateForcesRead ==
    [][ /\ (slast'.op = "invalidate" /\ scmd' = scmd + 1)
             => /\ ~cache'.some
                /\ UNCHANGED <<sfile, stmp, sbackup>>
        /\ (slast.op = "invalidate" /\ slast'.op = "load" /\ scmd' = scmd + 1)
             => /\ ~slast'.hit
                /\ slast'.exit = "ok"
                     => /\ slast'.ret = DocRead(sfile)
                        /\ cache' = Some(DocRead(sfile))
                /\ slast'.exit # "ok" => sfile.t = "bytes" ]_vars

\* C19 happens: a load that came right after invalidate_cache, in the same
\* instant as the calls before it, read the file and returned the document
\* that the file holds.
C19_Witness ==
    /\ slast.op = "load"
    /\ slast.invalidated
    /\ slast.exit = "ok"
    /\ now = 0
    /\ scmd = MaxStoreOps
    /\ sfile = DocS("k2" :> SubB)
    /\ slast.ret = sfile.d

\* C20: an update_scoped_data(k, d) that returns leaves file and cache
\* holding the loaded document with k set to d, or without k when d is
\* empty, the other keys as they were; the get_scoped_data(k) that follows
\* returns d (the empty sub-document after a removal), and the load that
\* follows a removal returns a document without k.
C20_ScopedUpdateThenGet ==
    [][ /\ (slast'.op = "update" /\ scmd' = scmd + 1 /\ slast'.exit = "ok")
             => LET k == slast'.key
                    d == slast'.data
                IN /\ cache'.some
                   /\ sfile' = DocS(cache'.doc)
                   /\ d # NoSub
                        => k \in DOMAIN cache'.doc /\ cache'.doc[k] = d
                   /\ d = NoSub => k \notin DOMAIN cache'.doc
                   /\ \A j \in Keys \ {k} :
                         /\ j \in DOMAIN cache'.doc <=> j \in DOMAIN slast'.ret
                         /\ j \in DOMAIN cache'.doc
                              => cache'.doc[j] = slast'.ret[j]
        /\ ( /\ slast.op = "update" /\ slast.exit = "ok"
             /\ slast'.op = "get" /\ slast'.key = slast.key
             /\ scmd' = scmd + 1 )
             => slast'.exit = "ok" /\ slast'.ret = slast.data
        /\ ( /\ slast.op = "update" /\ slast.exit = "ok" /\ slast.data = NoSub
             /\ slast'.op = "load"
             /\ scmd' = scmd + 1 )
             => slast'.exit = "ok" /\ slast.key \notin DOMAIN slast'.ret ]_vars

\* C20 happens: an update with the empty sub-document removed a key that
\* the document held from the file and from the cache, and kept another.
C20_Witness ==
    /\ slast.op = "update"
    /\ slast.exit = "ok"
    /\ slast.data = NoSub
    /\ slast.key \in DOMAIN slast.ret
    /\ sfile.t = "doc"
    /\ slast.key \notin DOMAIN sfile.d
    /\ sfile.d # EmptyDoc
    /\ cache = Some(sfile.d)

\* C32 as stated: an update_scoped_data(k, d) or remove_scope(k) that
\* returns changes scope k only: every other key has afterwards, in the
\* cache, the sub-document of the document the call loaded, and on disk the
\* sub-document the state file held for it before the call.
C32_OtherScopesKept ==
    [][ ( /\ slast'.op \in {"update", "remove_scope"}
          /\ scmd' = scmd + 1
          /\ slast'.exit = "ok" )
          => \A j \in Keys \ {slast'.key} :
                /\ cache'.some
                /\ j \in DOMAIN cache'.doc <=> j \in DOMAIN slast'.ret
                /\ j \in DOMAIN cache'.doc => cache'.doc[j] = slast'.ret[j]
                /\ sfile.t = "doc"
                     => /\ sfile'.t = "doc"
                        /\ j \in DOMAIN sfile'.d <=> j \in DOMAIN sfile.d
                        /\ j \in DOMAIN sfile.d => sfile'.d[j] = sfile.d[j] ]_vars

(***************************************************************************)
(* Properties of the navigation specification.                             *)
(***************************************************************************)
\* the label "-" was resolved to by the command l, NoLabel if it was not
Resolved(l) ==
    IF Called(l, "resolved")
    THEN l.ev[CHOOSE i \in DOMAIN l.ev : l.ev[i][1] = "resolved"][3]
    ELSE NoLabel

\* the tmux session of a tracked label; no session for any other label
SessionOf(state, label) ==
    IF label \in DOMAIN state.sessions
    THEN state.sessions[label].tmux_session_name ELSE Outside

\* C16: with history last = L and previous = P, "par open -" resolves to P,
\* except from a terminal inside P's tmux session, where it resolves to L;
\* with no previous label it fails.  It never resolves to the session the
\* terminal is in, and from inside L's session a successful "open -" moves
\* the terminal to P and swaps the two pointers, so that repeating it
\* alternates between the two labels.
C16_PreviousLabelResolution ==
    [][ (last'.op = "open" /\ last'.label = "-")
          => LET st == View(gfile)
                 L == st.last_session
                 P == st.previous_session
                 inP == client # Outside /\ client = SessionOf(st, P)
             IN /\ P = NoLabel
                      => last'.exit = "no_previous" /\ ~Called(last', "resolved")
                /\ (P # NoLabel /\ inP) => Resolved(last') = L
                /\ (P # NoLabel /\ ~inP) => Resolved(last') = P
                /\ (P # NoLabel /\ client # Outside)
                      => SessionOf(st, Resolved(last')) # client
                /\ ( /\ P # NoLabel
                     /\ client # Outside
                     /\ client = SessionOf(st, L)
                     /\ last'.exit = "ok" )
                      => /\ View(gfile').last_session = P
                         /\ View(gfile').previous_session = L
                         /\ client' = SessionOf(st, P) ]_vars

\* C16 happens: "par open -" typed inside the previous label's session was
\* answered from the last_session pointer and moved the terminal there.
C16_Witness ==
    /\ last.op = "open"
    /\ last.label = "-"
    /\ last.exit = "ok"
    /\ CalledOn(last, "resolved", <<"last_session">>)
    /\ client = SessionOf(View(gfile), Resolved(last))
    /\ View(gfile).previous_session # NoLabel


\* C30: par open of a label (typed, or resolved from "-") that has a record
\* while no tmux session of the recorded name exists creates a tmux session
\* of that name in the record's worktree path and only then attaches or
\* switches to it; the session exists afterwards and every record is as it
\* was.
C30_OpenRecreatesMissingSession ==
    [][ last'.op = "open" =>
          LET l == IF last'.label = "-" THEN Resolved(last') ELSE last'.label
              before == View(gfile).sessions
              ev == last'.ev
          IN ( /\ l \in DOMAIN before
               /\ before[l].tmux_session_name \notin tmux )
               => /\ \E i, j, k \in DOMAIN ev :
                         /\ i < j /\ j < k
                         /\ ev[i] = Ev("tmux_cwd", before[l].worktree_path, "")
                         /\ ev[j] = Ev("tmux_new", before[l].tmux_session_name, "")
                         /\ ev[k][1] \in {"exec_attach", "switch_client"}
                         /\ ev[k][2] = before[l].tmux_session_name
                  /\ tmux' = tmux \cup {before[l].tmux_session_name}
                  /\ client' = before[l].tmux_session_name
                  /\ View(gfile').sessions = before ]_vars

C30_Witness ==
    /\ last.op = "open"
    /\ Called(last, "tmux_cwd")
    /\ last.exit = "attached"
    /\ last.label \in TrackedSessions(gfile)
    /\ client = gfile.d.sessions[last.label].tmux_session_name

\* C31 as stated: every par open that succeeds on a tracked label L, by
\* switching the client inside tmux or by attaching outside tmux, leaves
\* last_session = L, and previous_session = the former last_session when
\* that was set and different from L.
C31_OpenRecordsHistory ==
    [][ ( /\ last'.op = "open"
          /\ last'.exit \in {"ok", "attached"} )
          => LET l == IF last'.label = "-" THEN Resolved(last') ELSE last'.label
                 st == View(gfile)
             IN /\ View(gfile').last_session = l
                /\ (st.last_session # NoLabel /\ st.last_session # l)
                       => View(gfile').previous_session = st.last_session ]_vars

\* the worktree directories a record refers to
WorktreesOf(rec) ==
    IF rec.session_type = "workspace"
    THEN {rec.workspace_repos[i].worktree_path : i \in DOMAIN rec.workspace_repos}
    ELSE {rec.worktree_path}

\* C33 as stated: par rm of a workspace record, with every tool working and
\* nothing removed by hand, leaves every worktree directory of every other
\* tracked record where it was.
C33_WorkspaceRemovalKeepsOthers ==
    [][ ( /\ last'.op = "remove"
          /\ last'.label \in DOMAIN View(gfile).sessions
          /\ View(gfile).sessions[last'.label].session_type = "workspace" )
          => \A l \in DOMAIN View(gfile).sessions \ {last'.label} :
                 \A w \in WorktreesOf(View(gfile).sessions[l]) :
                     w \in dirs => w \in dirs' ]_vars

\* C36 as stated: par open ends, for every label, by attaching or switching
\* to a session or by reporting that there is no such session (or no
\* previous session); the handler never calls itself without end.
C36_OpenTerminates ==
    [][ last'.op = "open" => last'.exit # "recursion" ]_vars

\* C37 as stated: par rm of a label that a create command would refuse as a
\* duplicate (a key of sessions or of workspaces in the state file), with
\* every tool working, leaves a state in which the label is free again.
C37_BlockedLabelCanBeRemoved ==
    [][ ( /\ last'.op = "remove"
          /\ ~ValidateLabelUnique(View(gfile), last'.label) )
          => ValidateLabelUnique(View(gfile'), last'.label) ]_vars

\* C38 as stated: whenever par open - resolves "-" to a label, that label
\* has a record in the state file.
C38_ResolvedLabelIsTracked ==
    [][ ( /\ last'.op = "open"
          /\ last'.label = "-"
          /\ Called(last', "resolved") )
          => Resolved(last') \in DOMAIN View(gfile).sessions ]_vars

\* C39: in every state the commands reach, last_session and
\* previous_session name different labels when both are set; and a par open
\* of the label that is last_session already leaves both pointers as they
\* were.
C39_HistoryPointersDiffer ==
    [][ /\ ( /\ View(gfile').last_session # NoLabel
             /\ View(gfile').previous_session # NoLabel )
             => View(gfile').last_session # View(gfile').previous_session
        /\ ( /\ last'.op = "open"
             /\ View(gfile).last_session # NoLabel
             /\ (IF last'.label = "-" THEN Resolved(last') ELSE last'.label)
                   = View(gfile).last_session )
             => /\ View(gfile').last_session = View(gfile).last_session
                /\ View(gfile').previous_session = View(gfile).previous_session
      ]_vars

\* C39 happens: inside tmux, with both pointers set, the label that is
\* last_session was opened and the terminal is in its session
C39_Witness ==
    /\ last.op = "open"
    /\ last.exit = "ok"
    /\ Called(last, "switch_client")
    /\ last.label = View(gfile).last_session
    /\ View(gfile).previous_session # NoLabel
    /\ ncmd >= 3

(***************************************************************************)
(* Properties of the race specification.                                   *)
(***************************************************************************)
\* C17 as stated: whatever the interleaving of the two saves and the reads,
\* the reader only ever sees one complete document (the initial one, D1 or
\* D2), and once both saves are over the file holds the document of the
\* writer whose replace came last.
C17_ReaderSeesCompleteDocuments ==
    /\ rObs \in {"none", "D0", "D1", "D2"}
    /\ (\A w \in Writers : rPc[w] \in {"saved", "exit1"})
          => /\ rStateFile # NoInode
             /\ rLastReplace # 0
             /\ rInodes[rStateFile] = DocOf(rLastReplace)


\* the teardown calls of a removal
TeardownCalls == {"tmux_kill", "worktree_remove", "delete_branch", "rmtree"}
RemoveAllOps == {"remove_all", "remove_all_workspaces"}

\* C21: a removal of everything (par rm all, par workspace rm all) whose
\* confirmation is declined makes no teardown call and leaves the tracked
\* records, the worktree directories, the branches and the tmux sessions
\* exactly as they were.
C21_DeclinedRemoveAllChangesNothing ==
    [][ ( /\ last'.op \in RemoveAllOps
          /\ \E i \in DOMAIN last'.ev : last'.ev[i] = Ev("confirm", <<>>, "no") )
          => /\ \A i \in DOMAIN last'.ev : last'.ev[i][1] \notin TeardownCalls
             /\ View(gfile').sessions = View(gfile).sessions
             /\ View(gfile').workspaces = View(gfile).workspaces
             /\ dirs' = dirs
             /\ branches' = branches
             /\ tmux' = tmux ]_vars

\* C21 happens: par rm all was declined while a session with a live tmux
\* session and a worktree was tracked.
C21_Witness ==
    /\ last.op = "remove_all"
    /\ last.exit = "aborted"
    /\ \E l \in TrackedSessions(gfile) :
          /\ gfile.d.sessions[l].tmux_session_name \in tmux
          /\ gfile.d.sessions[l].worktree_path \in dirs

\* C22 as stated: once a removal of everything is confirmed, a removal was
\* attempted for every label tracked at its start (the tmux session of each
\* was asked to be killed) and no record is left, whatever fails on the way.
C22_ConfirmedRemoveAllRemovesEverything ==
    [][ ( /\ last'.op = "remove_all"
          /\ \E i \in DOMAIN last'.ev : last'.ev[i] = Ev("confirm", <<>>, "yes") )
          => /\ \A l \in DOMAIN View(gfile).sessions :
                    \E i \in DOMAIN last'.ev :
                        last'.ev[i] = Ev("get_session", <<>>, l)
             /\ View(gfile').sessions = EmptyMap ]_vars

(***************************************************************************)
(* Properties of the migration specification.                              *)
(***************************************************************************)
\* the keys of the map m whose record satisfies P
KeysWith(m, P(_)) == {g \in DOMAIN m : P(m[g])}

\* C26: the first load of an installation with legacy files writes a global
\* document in which every legacy session entry and every legacy workspace
\* entry has exactly one record (found by its repository, worktree, tmux
\* session, branch and kind, or by its root and session name) and there is
\* no other record; no label names both a session and a workspace, every
\* record's label field is its key, and each legacy file that held entries
\* has a backup with the file's content.
C26_MigrationIsLossless ==
    [][ ( /\ gfile = AbsentFile
          /\ last'.op = "ls" )
          => /\ gfile'.t = "doc"
             /\ LET m == gfile'.d
                IN /\ \A i \in DOMAIN legacyState :
                          Cardinality(KeysWith(m.sessions,
                              LAMBDA rec :
                                  /\ rec.repository_path = RepoPath(legacyState[i].repo)
                                  /\ rec.worktree_path =
                                         GetWorktreePath(legacyState[i].repo,
                                                         legacyState[i].label)
                                  /\ rec.tmux_session_name =
                                         GetTmuxSessionName(legacyState[i].repo,
                                                            legacyState[i].label)
                                  /\ rec.branch_name = legacyState[i].branch
                                  /\ rec.session_type =
                                         IF legacyState[i].is_checkout
                                         THEN "checkout" ELSE "session")) = 1
                   /\ Cardinality(DOMAIN m.sessions) = Len(legacyState)
                   /\ \A i \in DOMAIN legacyWs :
                          Cardinality(KeysWith(m.workspaces,
                              LAMBDA rec :
                                  /\ rec.workspace_root = WsRootPath(legacyWs[i].root)
                                  /\ rec.session_name =
                                         GetWorkspaceSessionName(legacyWs[i].root,
                                                                 legacyWs[i].label))) = 1
                   /\ Cardinality(DOMAIN m.workspaces) = Len(legacyWs)
                   /\ DOMAIN m.sessions \cap DOMAIN m.workspaces = {}
                   /\ \A g \in DOMAIN m.sessions : m.sessions[g].label = g
                   /\ \A g \in DOMAIN m.workspaces : m.workspaces[g].label = g
             /\ legacyState # <<>>
                   => /\ "state.json.backup" \in DOMAIN backups'
                      /\ backups'["state.json.backup"].d = legacyState
             /\ legacyWs # <<>>
                   => /\ "workspaces.json.backup" \in DOMAIN backups'
                      /\ backups'["workspaces.json.backup"].d = legacyWs ]_vars

\* three sessions of two repositories and two workspaces, renamed twice over
C26_Witness ==
    /\ last.op = "ls"
    /\ Len(legacyState) = 3
    /\ Len(legacyWs) = 2
    /\ gfile.t = "doc"
    /\ "a-r2-2" \in DOMAIN gfile.d.sessions
    /\ "a-w1-2" \in DOMAIN gfile.d.workspaces
    /\ DOMAIN backups = {"state.json.backup", "workspaces.json.backup"}

(***************************************************************************)
(* Properties of the stored-path specification.                            *)
(***************************************************************************)
\* C40 as stated: whatever path the removed record holds, every directory
\* that is not under par's data directory is still there after par rm.
C40_RemovalStaysInDataDir ==
    [][ last'.op = "remove"
          => \A d \in dirs : ~IsPrefix(DataDir, d) => d \in dirs' ]_vars

(***************************************************************************)
(* Properties of the concurrency specification.                            *)
(***************************************************************************)
Ended(p) == procs[p].pc \in {"done", "failed"}

\* C34 as stated: when two concurrent par start invocations with the same
\* label have both ended, at most one of them ended successfully, and every
\* worktree directory and every tmux session there is belongs to a record
\* of the state file.
C34_ConcurrentSameLabel ==
    ( /\ procs # NoProcs
      /\ \A p \in Procs : Ended(p)
      /\ procs[1].label = procs[2].label )
      => /\ ~(procs[1].pc = "done" /\ procs[2].pc = "done")
         /\ \A w \in WorktreeDirs(dirs) :
               \E l \in DOMAIN View(gfile).sessions :
                   View(gfile).sessions[l].worktree_path = w
         /\ \A t \in tmux :
               \E l \in DOMAIN View(gfile).sessions :
                   View(gfile).sessions[l].tmux_session_name = t

\* C35 as stated: when two concurrent par start invocations with different
\* labels have both ended successfully, the state file holds both records.
C35_ConcurrentAddsBothKept ==
    ( /\ procs # NoProcs
      /\ \A p \in Procs : procs[p].pc = "done"
      /\ procs[1].label # procs[2].label )
      => \A p \in Procs : procs[p].label \in DOMAIN View(gfile).sessions

====
